---- MODULE Spec2Model ----
(***************************************************************************)
(* Model of the ACP bridge of the Kiro Slack bot:                          *)
(*   src/src/acp/client.ts   AcpClient (pending calls, prompts, terminals) *)
(*   src/src/index.ts        prompt lock, permission handling              *)
(*   src/src/store/session-store.ts  SlackSender.postPermissionPrompt      *)
(***************************************************************************)
EXTENDS Integers, Sequences, FiniteSets, TLC

\* ------------------------------------------------------------------------
\* Bounds of the model
\* ------------------------------------------------------------------------
MaxCalls == 3
MaxPrompts == 1
MaxLines == 3
MaxTerminals == 1
MaxWaitTerminals == 2
MaxThreads == 2
MaxSessMsgs == 2
MaxAppends == 3
MaxTermReqs == 4
MaxOutput == 1
MaxMsgs == 3
MaxExits == 1
MaxPermReqs == 2
MaxClicks == 2
MaxDispatched == 3
MaxOpsCalls == 2
MaxErrors == 1

\* ------------------------------------------------------------------------
\* Values
\* ------------------------------------------------------------------------
Sessions == {"s1", "s2"}

\* a session/update line whose params carry no (or an empty) sessionId
NoSession == ""

\* createSession and loadSession differ only in the method name and params
ControlMethods == {"session/new", "session/cancel"}

VARIABLES
  \* --- AcpClient: the agent process and its stdin ---
  proc,              \* this.proc: "none" before start(), "attached", "null" after kill()
  stdinOpen,         \* this.proc.stdin.writable
  closed,            \* the agent process has emitted "close"
  initialized,       \* this.initialized
  \* --- AcpClient: client-initiated requests ---
  nextId,            \* this.nextId
  pending,           \* this.pending: correlation id -> caller (its resolve/reject pair)
  promptRequestIds,  \* this.promptRequestIds: correlation id -> sessionId
  timers,            \* callers whose 60 s timer is armed and has not fired
  calls,             \* one record per request() call: id, method, written, settlements
  prompts,           \* one record per prompt() call: id, session, written
  \* --- the inbound stream and the emitted events ---
  arrived,           \* the update lines and prompt-response lines handed to
                     \* handleLine, in arrival order
  events,            \* the events emitted by the client, in emission order
  \* --- AcpClient: terminals ---
  terminalCounter,   \* this.terminalCounter
  terminals,         \* this.terminals: n (for `term_n`) -> [output, exitCode]
  tprocs,            \* the spawned child processes: n -> [running, signalled, listeners]
  treqs,             \* the terminal/* requests handed to handleLine, in arrival order
  sent,              \* the response lines written to the agent's stdin, in order
  \* --- index.ts: the prompt lock ---
  promptLock,        \* promptLock: 0 (null) or the number of a promise
  promptDone,        \* promptDone: 0 (null) or the promise its resolver belongs to
  promises,          \* number of lock promises created so far
  resolved,          \* the lock promises that have been resolved
  msgs,              \* per handleMessage call: [pc, waitsOn]
  waiters,           \* calls whose .then callback is registered, in registration order
  inFlight,          \* calls that passed acquirePromptLock since the last release
  exits,             \* number of "exit" events of ACP clients so far
  \* --- index.ts: permission requests ---
  toolApproval,      \* config.toolApproval
  activeSenders,     \* the keys of activeSenders: sessions with a SlackSender
  permReqs,          \* the session/request_permission lines handed to handleLine
  pendingPermissions, \* pendingPermissions: actionId -> [acpRequestId, sessionId]
  posts,             \* postPermissionPrompt calls: actionId -> "posting", "posted", "failed"
  clicks,            \* button clicks handled so far: actionId -> count
  \* --- the line listener, line by line ---
  dispatched,        \* the lines handed to handleLine by ReadLine, in arrival order
  crashed,           \* an exception left a listener of the event loop uncaught
  senderLog,         \* per dispatched line: its session had a sender then
  delivered,         \* the dispatched lines (by position) whose update was
                     \* appended to a sender, in order
  \* --- index.ts: the session of a thread ---
  store,             \* sessions.json: thread -> stored session id, 0 when none
  hm,                \* per handleMessage call: its thread and its local variables
  ops,               \* the session/load, session/new and session/prompt calls, in order
  sessionCounter,    \* number of sessions the agent has created so far
  \* --- SlackSender ---
  appends,           \* the appendDelta calls in call order: state of each doAppend
  finishPc,          \* finish(): "idle", "waiting" (await this.queue) or "stopped"
  finishAfter,       \* number of appendDelta calls made before finish()
  streamLog          \* the doAppend starts and ends and the streamer stop, in order

acpVars == <<proc, stdinOpen, closed, initialized, nextId, pending,
             promptRequestIds, timers, calls, prompts, arrived, events>>

termVars == <<terminalCounter, terminals, tprocs, treqs, sent>>

lockVars == <<promptLock, promptDone, promises, resolved, msgs, waiters,
              inFlight, exits>>

permVars == <<toolApproval, activeSenders, permReqs, pendingPermissions, posts,
              clicks>>

lineVars == <<dispatched, crashed, senderLog, delivered>>

sessVars == <<store, hm, ops, sessionCounter>>

sendVars == <<appends, finishPc, finishAfter, streamLog>>

vars == <<acpVars, termVars, lockVars, permVars, lineVars, sessVars, sendVars>>

\* what the actions of one part of the model leave alone
NotAcp == <<termVars, lockVars, permVars, lineVars, sessVars, sendVars>>

NotTerm == <<initialized, nextId, pending, promptRequestIds, timers, calls,
             prompts, arrived, events, lockVars, permVars, lineVars, sessVars,
             sendVars>>

NotLock == <<acpVars, termVars, permVars, lineVars, sessVars, sendVars>>

\* what the permission actions leave alone, apart from `events` and `sent`
NotPerm == <<proc, stdinOpen, closed, initialized, nextId, pending,
             promptRequestIds, timers, calls, prompts, arrived,
             terminalCounter, terminals, tprocs, treqs, lockVars, lineVars,
             sessVars, sendVars>>

\* ------------------------------------------------------------------------
\* Helpers
\* ------------------------------------------------------------------------
Range(f) == {f[x] : x \in DOMAIN f}

\* Map.delete(k)
MapDelete(m, k) == [x \in DOMAIN m \ {k} |-> m[x]]

\* Map.set(k, v)
MapSet(m, k, v) == [x \in DOMAIN m \cup {k} |-> IF x = k THEN v ELSE m[x]]

EmptyMap == [x \in {} |-> 0]

\* `!this.proc?.stdin?.writable` is false
Writable == proc = "attached" /\ stdinOpen

\* p.resolve(v) / p.reject(e) invoked on the promise of caller c; rid is the id
\* of the response line that carried the result or error (0 when there is none)
Settle(cs, c, how, rid) ==
  [cs EXCEPT ![c].settles = Append(@, [how |-> how, rid |-> rid])]

\* ------------------------------------------------------------------------
\* AcpClient: client-initiated requests
\* ------------------------------------------------------------------------

\* request(method, params): allocate the id, store the pending entry, write
\* the line, arm the timer.  `writable` is the outcome of the check in send(),
\* which throws when the stream is not writable:
\* the promise executor then rejects the promise, after the entry was stored
\* and before the timer is armed.
RequestBody(method, writable) ==
  LET id == nextId
      c == Len(calls) + 1
  IN /\ nextId' = nextId + 1
     /\ pending' = MapSet(pending, id, c)
     /\ IF writable
          THEN /\ calls' = Append(calls, [id |-> id, method |-> method,
                                          written |-> TRUE, settles |-> <<>>])
               /\ timers' = timers \cup {c}
          ELSE /\ calls' = Append(calls, [id |-> id, method |-> method,
                                          written |-> FALSE,
                                          settles |-> <<[how |-> "unwritable", rid |-> 0]>>])
               /\ timers' = timers

\* start(): spawn the agent, attach the handlers, request("initialize")
Start ==
  /\ proc = "none"
  /\ proc' = "attached"
  /\ stdinOpen' = TRUE
  /\ RequestBody("initialize", TRUE)
  /\ UNCHANGED <<closed, initialized, promptRequestIds, prompts, arrived, events>>
  /\ UNCHANGED NotAcp

\* variant of InitializeDone: start() goes on whatever the outcome of the
\* initialize request
InitializeDoneAnyOutcome ==
  /\ ~initialized
  /\ Len(calls) >= 1
  /\ calls[1].settles # <<>>
  /\ initialized' = TRUE
  /\ UNCHANGED <<proc, stdinOpen, closed, nextId, pending, promptRequestIds,
                 timers, calls, prompts, arrived, events>>
  /\ UNCHANGED NotAcp

\* initialize(): the continuation after `await this.request("initialize")`
InitializeDone ==
  /\ ~initialized
  /\ Len(calls) >= 1
  /\ calls[1].settles # <<>>
  /\ calls[1].settles[1].how = "result"
  /\ initialized' = TRUE
  /\ UNCHANGED <<proc, stdinOpen, closed, nextId, pending, promptRequestIds,
                 timers, calls, prompts, arrived, events>>
  /\ UNCHANGED NotAcp

\* variant of Request: a cancel also forgets the tracked prompt ids
RequestForgetsPrompts(method) ==
  /\ initialized
  /\ Len(calls) < MaxCalls
  /\ RequestBody(method, Writable)
  /\ promptRequestIds' = IF method = "session/cancel" THEN EmptyMap ELSE promptRequestIds
  /\ UNCHANGED <<proc, stdinOpen, closed, initialized, prompts, arrived, events>>
  /\ UNCHANGED NotAcp

\* createSession / loadSession / cancel: request(method)
Request(method) ==
  /\ initialized
  /\ Len(calls) < MaxCalls
  /\ RequestBody(method, Writable)
  /\ UNCHANGED <<proc, stdinOpen, closed, initialized, promptRequestIds,
                 prompts, arrived, events>>
  /\ UNCHANGED NotAcp

\* variant of Prompt: the id counter is not advanced
PromptSameId(s) ==
  /\ initialized
  /\ Len(prompts) < MaxPrompts
  /\ UNCHANGED nextId
  /\ promptRequestIds' = MapSet(promptRequestIds, nextId, s)
  /\ prompts' = Append(prompts, [id |-> nextId, session |-> s, written |-> Writable])
  /\ UNCHANGED <<proc, stdinOpen, closed, initialized, pending, timers, calls,
                 arrived, events>>
  /\ UNCHANGED NotAcp

\* prompt(sessionId, text): the id is tracked before the line is written
Prompt(s) ==
  /\ initialized
  /\ Len(prompts) < MaxPrompts
  /\ nextId' = nextId + 1
  /\ promptRequestIds' = MapSet(promptRequestIds, nextId, s)
  /\ prompts' = Append(prompts, [id |-> nextId, session |-> s, written |-> Writable])
  /\ UNCHANGED <<proc, stdinOpen, closed, initialized, pending, timers, calls,
                 arrived, events>>
  /\ UNCHANGED NotAcp

\* variant of TimerFire: the deadline also ends the prompts that are still
\* tracked
TimerFireEndsPrompts(c) ==
  /\ c \in timers
  /\ timers' = timers \ {c}
  /\ IF calls[c].id \in DOMAIN pending
       THEN /\ pending' = MapDelete(pending, calls[c].id)
            /\ calls' = Settle(calls, c, "timeout", 0)
       ELSE UNCHANGED <<pending, calls>>
  /\ promptRequestIds' = EmptyMap
  /\ UNCHANGED <<proc, stdinOpen, closed, initialized, nextId,
                 prompts, arrived, events>>
  /\ UNCHANGED NotAcp

\* the setTimeout callback of request()
TimerFire(c) ==
  /\ c \in timers
  /\ timers' = timers \ {c}
  /\ IF calls[c].id \in DOMAIN pending
       THEN /\ pending' = MapDelete(pending, calls[c].id)
            /\ calls' = Settle(calls, c, "timeout", 0)
       ELSE UNCHANGED <<pending, calls>>
  /\ UNCHANGED <<proc, stdinOpen, closed, initialized, nextId, promptRequestIds,
                 prompts, arrived, events>>
  /\ UNCHANGED NotAcp

\* variant of RejectAll: only the oldest pending entry is rejected
RejectAllFirstOnly(cs) ==
  [c \in DOMAIN cs |->
     IF c \in Range(pending) /\ \A d \in Range(pending) : c <= d
       THEN [cs[c] EXCEPT !.settles = Append(@, [how |-> "close", rid |-> 0])]
       ELSE cs[c]]

\* rejectAll(err): reject every pending entry, then clear the table
RejectAll(cs) ==
  [c \in DOMAIN cs |->
     IF c \in Range(pending)
       THEN [cs[c] EXCEPT !.settles = Append(@, [how |-> "close", rid |-> 0])]
       ELSE cs[c]]

\* variant of Close: the close handler also terminates the terminal processes
\* and drops their entries
CloseReapsTerminals ==
  /\ proc # "none"
  /\ ~closed
  /\ closed' = TRUE
  /\ stdinOpen' = FALSE
  /\ calls' = RejectAll(calls)
  /\ pending' = EmptyMap
  /\ events' = Append(events, [type |-> "exit", session |-> NoSession, id |-> 0])
  /\ tprocs' = [t \in DOMAIN tprocs |->
                  [tprocs[t] EXCEPT !.signalled = @ \/ tprocs[t].running]]
  /\ terminals' = EmptyMap
  /\ UNCHANGED <<proc, initialized, nextId, promptRequestIds, timers, prompts,
                 arrived>>
  /\ UNCHANGED <<terminalCounter, treqs, sent, lockVars, permVars, lineVars,
                 sessVars, sendVars>>

\* proc.on("close"): rejectAll, then emit "exit"
Close ==
  /\ proc # "none"
  /\ ~closed
  /\ closed' = TRUE
  /\ stdinOpen' = FALSE
  /\ calls' = RejectAll(calls)
  /\ pending' = EmptyMap
  /\ events' = Append(events, [type |-> "exit", session |-> NoSession, id |-> 0])
  /\ UNCHANGED <<proc, initialized, nextId, promptRequestIds, timers, prompts,
                 arrived>>
  /\ UNCHANGED NotAcp

\* the "error" events emitted so far
ErrorEvents == {e \in DOMAIN events : events[e].type = "error"}

\* proc.on("error"): the agent process emits "error" (it could not be
\* spawned, killed or written to); the client re-emits it, and the listener of
\* wireAcpEvents logs it
ProcError ==
  /\ proc # "none"
  /\ Cardinality(ErrorEvents) < MaxErrors
  /\ events' = Append(events, [type |-> "error", session |-> NoSession, id |-> 0])
  /\ UNCHANGED <<proc, stdinOpen, closed, initialized, nextId, pending,
                 promptRequestIds, timers, calls, prompts, arrived>>
  /\ UNCHANGED NotAcp

\* kill(): SIGTERM to the agent, this.proc = null.  The handlers stay attached
\* to the process, which closes later.  shutdown() calls it on the clients
\* that getAcpClient() registered, that is after start() has returned.
Kill ==
  /\ initialized
  /\ proc = "attached"
  /\ proc' = "null"
  /\ UNCHANGED <<stdinOpen, closed, initialized, nextId, pending,
                 promptRequestIds, timers, calls, prompts, arrived, events>>
  /\ UNCHANGED NotAcp

\* ------------------------------------------------------------------------
\* AcpClient: what the callers of the public methods see
\* ------------------------------------------------------------------------

\* variant of CallerOutcome: cancel has no try/catch
CallerOutcomeNoCatch(call) ==
  IF call.settles = <<>>
    THEN "waiting"
    ELSE IF call.settles[1].how = "result" THEN "returned" ELSE "raised"

\* the outcome of createSession / cancel / initialize for its caller: the
\* promise of request() is settled by the first resolve or reject; the awaiting
\* method returns on a result and raises on a rejection, except cancel, whose
\* `try { await this.request(...) } catch {}` swallows it
CallerOutcome(call) ==
  IF call.settles = <<>>
    THEN "waiting"
    ELSE IF call.method = "session/cancel" \/ call.settles[1].how = "result"
      THEN "returned"
      ELSE "raised"

\* ------------------------------------------------------------------------
\* AcpClient.handleLine: responses and notifications
\* ------------------------------------------------------------------------

\* JavaScript truthiness of a sessionId string
Truthy(s) == s # NoSession

BlankLine == [kind |-> "blank", id |-> 0, err |-> FALSE, session |-> NoSession]

ResponseLine(id, err) ==
  [kind |-> "response", id |-> id, err |-> err, session |-> NoSession]

UpdateLine(s) == [kind |-> "update", id |-> 0, err |-> FALSE, session |-> s]

\* a line that carries an id and a method the client has no branch for
OtherRequestLine(id) ==
  [kind |-> "other", id |-> id, err |-> FALSE, session |-> NoSession]

\* the lines the agent can write: ids range over every id issued so far and
\* the never-issued id 0
InboundLines ==
  {BlankLine}
  \cup {ResponseLine(id, err) : id \in 0..(nextId - 1), err \in BOOLEAN}
  \cup {UpdateLine(s) : s \in Sessions \cup {NoSession}}
  \cup {OtherRequestLine(id) : id \in 0..(nextId - 1)}

\* variant of SettlePending: the response settles the oldest pending call
\* (FIFO) instead of the call whose id it carries
SettlePendingFifo(line) ==
  IF DOMAIN pending # {}
    THEN LET first == CHOOSE id \in DOMAIN pending :
                        \A other \in DOMAIN pending : id <= other
         IN /\ pending' = MapDelete(pending, first)
            /\ calls' = Settle(calls, pending[first],
                               IF line.err THEN "error" ELSE "result", line.id)
    ELSE UNCHANGED <<pending, calls>>

\* variant of SettlePending: a response with an unknown id is delivered to the
\* oldest pending call
SettlePendingOrOldest(line) ==
  IF line.id \in DOMAIN pending
    THEN /\ pending' = MapDelete(pending, line.id)
         /\ calls' = Settle(calls, pending[line.id],
                            IF line.err THEN "error" ELSE "result", line.id)
    ELSE IF DOMAIN pending # {}
      THEN LET first == CHOOSE id \in DOMAIN pending :
                          \A other \in DOMAIN pending : id <= other
           IN /\ pending' = MapDelete(pending, first)
              /\ calls' = Settle(calls, pending[first],
                                 IF line.err THEN "error" ELSE "result", line.id)
      ELSE UNCHANGED <<pending, calls>>

\* variant of SettlePending: an error response rejects every pending caller
SettlePendingErrorAll(line) ==
  IF line.id \in DOMAIN pending
    THEN IF line.err
      THEN /\ pending' = EmptyMap
           /\ calls' = [c \in DOMAIN calls |->
                          IF c \in Range(pending)
                            THEN [calls[c] EXCEPT !.settles =
                                    Append(@, [how |-> "error", rid |-> line.id])]
                            ELSE calls[c]]
      ELSE /\ pending' = MapDelete(pending, line.id)
           /\ calls' = Settle(calls, pending[line.id], "result", line.id)
    ELSE UNCHANGED <<pending, calls>>

\* `const p = this.pending.get(id); if (p) { ... }`
SettlePending(line) ==
  IF line.id \in DOMAIN pending
    THEN /\ pending' = MapDelete(pending, line.id)
         /\ calls' = Settle(calls, pending[line.id],
                            IF line.err THEN "error" ELSE "result", line.id)
    ELSE UNCHANGED <<pending, calls>>

\* variant of EndTurn: the tracked prompt id is not deleted
EndTurnKeepPrompt(line) ==
  IF line.id \in DOMAIN promptRequestIds /\ Truthy(promptRequestIds[line.id])
    THEN /\ UNCHANGED promptRequestIds
         /\ events' = Append(events, [type |-> "turn_end",
                                      session |-> promptRequestIds[line.id],
                                      id |-> line.id])
    ELSE UNCHANGED <<promptRequestIds, events>>

\* `const promptSessionId = this.promptRequestIds.get(id); if (promptSessionId) { ... }`
EndTurn(line) ==
  IF line.id \in DOMAIN promptRequestIds /\ Truthy(promptRequestIds[line.id])
    THEN /\ promptRequestIds' = MapDelete(promptRequestIds, line.id)
         /\ events' = Append(events, [type |-> "turn_end",
                                      session |-> promptRequestIds[line.id],
                                      id |-> line.id])
    ELSE UNCHANGED <<promptRequestIds, events>>

\* the "responses to our requests" branch
HandleResponse(line) ==
  /\ EndTurn(line)
  /\ SettlePending(line)

\* variant of HandleNotification: updates are put in front of the events
\* already emitted
HandleNotificationPrepend(line) ==
  /\ IF line.kind = "update" /\ Truthy(line.session)
       THEN events' = <<[type |-> "update", session |-> line.session, id |-> 0]>>
                      \o events
       ELSE UNCHANGED events
  /\ UNCHANGED <<pending, calls, promptRequestIds>>

\* variant of HandleNotification: a line with an id is taken for a response
\* whether or not it has a method
HandleNotificationById(line) ==
  IF line.id # 0
    THEN /\ EndTurn(line)
         /\ SettlePending(line)
    ELSE /\ IF line.kind = "update" /\ Truthy(line.session)
              THEN events' = Append(events, [type |-> "update", session |-> line.session,
                                             id |-> 0])
              ELSE UNCHANGED events
         /\ UNCHANGED <<pending, calls, promptRequestIds>>

\* the notification branch
HandleNotification(line) ==
  /\ IF line.kind = "update" /\ Truthy(line.session)
       THEN events' = Append(events, [type |-> "update", session |-> line.session,
                                      id |-> 0])
       ELSE UNCHANGED events
  /\ UNCHANGED <<pending, calls, promptRequestIds>>

\* the ids of the outstanding client-initiated requests
OutstandingIds == DOMAIN pending \cup DOMAIN promptRequestIds

\* the ids handed out by prompt()
PromptIds == {prompts[i].id : i \in DOMAIN prompts}

\* arrival log: update lines and the response lines that answer a prompt
Logged(line) ==
  \/ line.kind = "update"
  \/ line.kind = "response" /\ line.id \in PromptIds

\* rl.on("line"): one inbound line is dispatched
HandleLine(line) ==
  /\ proc # "none"
  /\ ~closed
  /\ IF Logged(line)
       THEN /\ Len(arrived) < MaxLines
            /\ arrived' = Append(arrived, line)
       ELSE UNCHANGED arrived
  /\ CASE line.kind = "blank" ->
            UNCHANGED <<pending, calls, promptRequestIds, events>>
       [] line.kind = "response" -> HandleResponse(line)
       [] OTHER -> HandleNotification(line)
  /\ UNCHANGED <<proc, stdinOpen, closed, initialized, nextId, timers, prompts>>
  /\ UNCHANGED NotAcp

\* ------------------------------------------------------------------------
\* AcpClient: terminals
\* ------------------------------------------------------------------------

\* exit codes are optional values: NoCode is null, Code(n) is the number n
NoCode == <<>>

Code(n) == <<n>>

\* the exit codes a process of the model exits with
ExitCodes == {0, 3}

\* `code ?? 1`
OrOne(code) == IF code = NoCode THEN 1 ELSE code[1]

\* the bytes of one data event
Chunks == {"a"}

\* `{}`
EmptyResult == [x \in {} |-> 0]

\* respond(id, result): the line is written only when the stream is writable
Respond(out, id, result) ==
  IF Writable THEN Append(out, [id |-> id, result |-> result]) ELSE out

\* the log entry of a terminal/* request for handle t: whether the handle was
\* registered, and whether its process had terminated, when it was dispatched
TermReq(method, t) ==
  [id |-> Len(treqs) + 1, method |-> method, term |-> t,
   registered |-> t \in DOMAIN terminals,
   terminated |-> t \in DOMAIN tprocs /\ ~tprocs[t].running]

\* an inbound terminal/* line can be dispatched
TermLineArrives ==
  /\ proc # "none"
  /\ ~closed
  /\ Len(treqs) < MaxTermReqs

\* the handles the agent can name: those minted so far and one never minted
Handles == 0..terminalCounter

\* entry.proc.kill("SIGTERM"): signals the process if it is still running
Signal(ps, t) == [ps EXCEPT ![t].signalled = @ \/ ps[t].running]

\* variant of TerminalCreate: the handle is numbered by the size of the
\* registry, so the number of a released handle is handed out again
TerminalCreateBySize ==
  /\ TermLineArrives
  /\ LET termId == Cardinality(DOMAIN terminals) + 1
         req == TermReq("terminal/create", 0)
     IN /\ terminalCounter' = terminalCounter + 1
        /\ terminals' = MapSet(terminals, termId, [output |-> <<>>, exitCode |-> NoCode])
        /\ tprocs' = MapSet(tprocs, termId,
                            [running |-> TRUE, signalled |-> FALSE, listeners |-> <<>>])
        /\ treqs' = Append(treqs, req)
        /\ sent' = Respond(sent, req.id, [terminalId |-> termId])
  /\ UNCHANGED <<proc, stdinOpen, closed>>
  /\ UNCHANGED NotTerm

\* handleTerminalCreate(id, params)
TerminalCreate ==
  /\ TermLineArrives
  /\ LET termId == terminalCounter + 1
         req == TermReq("terminal/create", 0)
     IN /\ terminalCounter' = termId
        /\ terminals' = MapSet(terminals, termId, [output |-> <<>>, exitCode |-> NoCode])
        /\ tprocs' = MapSet(tprocs, termId,
                            [running |-> TRUE, signalled |-> FALSE, listeners |-> <<>>])
        /\ treqs' = Append(treqs, req)
        /\ sent' = Respond(sent, req.id, [terminalId |-> termId])
  /\ UNCHANGED <<proc, stdinOpen, closed>>
  /\ UNCHANGED NotTerm

\* a terminal/wait_for_exit listener is attached to a running process
WaitOutstanding ==
  \E t \in DOMAIN tprocs : tprocs[t].running /\ tprocs[t].listeners # <<>>

\* variant of TerminalOutput: while a wait_for_exit is outstanding the request
\* is not answered
TerminalOutputBehindWait(t) ==
  /\ TermLineArrives
  /\ LET req == TermReq("terminal/output", t)
     IN /\ treqs' = Append(treqs, req)
        /\ sent' =
             IF WaitOutstanding
               THEN sent
               ELSE IF t \notin DOMAIN terminals
                 THEN Respond(sent, req.id, [output |-> <<>>, truncated |-> FALSE])
                 ELSE IF terminals[t].exitCode # NoCode
                   THEN Respond(sent, req.id,
                                [output |-> terminals[t].output, truncated |-> FALSE,
                                 exitStatus |-> [exitCode |-> terminals[t].exitCode[1]]])
                   ELSE Respond(sent, req.id,
                                [output |-> terminals[t].output, truncated |-> FALSE])
  /\ UNCHANGED <<terminalCounter, terminals, tprocs>>
  /\ UNCHANGED <<proc, stdinOpen, closed>>
  /\ UNCHANGED NotTerm

\* variant of TerminalOutput: the read drains the buffer
TerminalOutputDrains(t) ==
  /\ TermLineArrives
  /\ LET req == TermReq("terminal/output", t)
     IN /\ treqs' = Append(treqs, req)
        /\ sent' =
             IF t \notin DOMAIN terminals
               THEN Respond(sent, req.id, [output |-> <<>>, truncated |-> FALSE])
               ELSE IF terminals[t].exitCode # NoCode
                 THEN Respond(sent, req.id,
                              [output |-> terminals[t].output, truncated |-> FALSE,
                               exitStatus |-> [exitCode |-> terminals[t].exitCode[1]]])
                 ELSE Respond(sent, req.id,
                              [output |-> terminals[t].output, truncated |-> FALSE])
        /\ terminals' = IF t \in DOMAIN terminals
                          THEN [terminals EXCEPT ![t].output = <<>>]
                          ELSE terminals
  /\ UNCHANGED <<terminalCounter, tprocs>>
  /\ UNCHANGED <<proc, stdinOpen, closed>>
  /\ UNCHANGED NotTerm

\* variant of TerminalOutput: an exit status is reported for a running process
\* too
TerminalOutputAlwaysStatus(t) ==
  /\ TermLineArrives
  /\ LET req == TermReq("terminal/output", t)
     IN /\ treqs' = Append(treqs, req)
        /\ sent' =
             IF t \notin DOMAIN terminals
               THEN Respond(sent, req.id, [output |-> <<>>, truncated |-> FALSE])
               ELSE Respond(sent, req.id,
                            [output |-> terminals[t].output, truncated |-> FALSE,
                             exitStatus |-> [exitCode |-> OrOne(terminals[t].exitCode)]])
  /\ UNCHANGED <<terminalCounter, terminals, tprocs>>
  /\ UNCHANGED <<proc, stdinOpen, closed>>
  /\ UNCHANGED NotTerm

\* handleTerminalOutput(id, params)
TerminalOutput(t) ==
  /\ TermLineArrives
  /\ LET req == TermReq("terminal/output", t)
     IN /\ treqs' = Append(treqs, req)
        /\ sent' =
             IF t \notin DOMAIN terminals
               THEN Respond(sent, req.id, [output |-> <<>>, truncated |-> FALSE])
               ELSE IF terminals[t].exitCode # NoCode
                 THEN Respond(sent, req.id,
                              [output |-> terminals[t].output, truncated |-> FALSE,
                               exitStatus |-> [exitCode |-> terminals[t].exitCode[1]]])
                 ELSE Respond(sent, req.id,
                              [output |-> terminals[t].output, truncated |-> FALSE])
  /\ UNCHANGED <<terminalCounter, terminals, tprocs>>
  /\ UNCHANGED <<proc, stdinOpen, closed>>
  /\ UNCHANGED NotTerm

\* variant of TerminalWaitForExit: a request for an unknown handle is left
\* without a response
TerminalWaitForExitHang(t) ==
  /\ TermLineArrives
  /\ LET req == TermReq("terminal/wait_for_exit", t)
     IN /\ treqs' = Append(treqs, req)
        /\ IF t \notin DOMAIN terminals
             THEN UNCHANGED <<sent, tprocs>>
             ELSE IF terminals[t].exitCode # NoCode
               THEN /\ sent' = Respond(sent, req.id,
                                       [exitCode |-> terminals[t].exitCode[1]])
                    /\ UNCHANGED tprocs
               ELSE /\ tprocs' = [tprocs EXCEPT ![t].listeners = Append(@, req.id)]
                    /\ UNCHANGED sent
  /\ UNCHANGED <<terminalCounter, terminals>>
  /\ UNCHANGED <<proc, stdinOpen, closed>>
  /\ UNCHANGED NotTerm

\* handleTerminalWaitForExit(id, params)
TerminalWaitForExit(t) ==
  /\ TermLineArrives
  /\ LET req == TermReq("terminal/wait_for_exit", t)
     IN /\ treqs' = Append(treqs, req)
        /\ IF t \notin DOMAIN terminals
             THEN /\ sent' = Respond(sent, req.id, [exitCode |-> 1])
                  /\ UNCHANGED tprocs
             ELSE IF terminals[t].exitCode # NoCode
               THEN /\ sent' = Respond(sent, req.id,
                                       [exitCode |-> terminals[t].exitCode[1]])
                    /\ UNCHANGED tprocs
               ELSE /\ tprocs' = [tprocs EXCEPT ![t].listeners = Append(@, req.id)]
                    /\ UNCHANGED sent
  /\ UNCHANGED <<terminalCounter, terminals>>
  /\ UNCHANGED <<proc, stdinOpen, closed>>
  /\ UNCHANGED NotTerm

\* variant of TerminalKill: a kill for a handle whose process has already
\* terminated is not answered
TerminalKillOnce(t) ==
  /\ TermLineArrives
  /\ LET req == TermReq("terminal/kill", t)
     IN /\ treqs' = Append(treqs, req)
        /\ tprocs' = IF t \in DOMAIN terminals /\ terminals[t].exitCode = NoCode
                       THEN Signal(tprocs, t)
                       ELSE tprocs
        /\ sent' = IF req.terminated THEN sent ELSE Respond(sent, req.id, EmptyResult)
  /\ UNCHANGED <<terminalCounter, terminals>>
  /\ UNCHANGED <<proc, stdinOpen, closed>>
  /\ UNCHANGED NotTerm

\* handleTerminalKill(id, params)
TerminalKill(t) ==
  /\ TermLineArrives
  /\ LET req == TermReq("terminal/kill", t)
     IN /\ treqs' = Append(treqs, req)
        /\ tprocs' = IF t \in DOMAIN terminals /\ terminals[t].exitCode = NoCode
                       THEN Signal(tprocs, t)
                       ELSE tprocs
        /\ sent' = Respond(sent, req.id, EmptyResult)
  /\ UNCHANGED <<terminalCounter, terminals>>
  /\ UNCHANGED <<proc, stdinOpen, closed>>
  /\ UNCHANGED NotTerm

\* variant of TerminalRelease: the release empties the registry
TerminalReleaseAll(t) ==
  /\ TermLineArrives
  /\ LET req == TermReq("terminal/release", t)
     IN /\ treqs' = Append(treqs, req)
        /\ tprocs' = IF t \in DOMAIN terminals /\ terminals[t].exitCode = NoCode
                       THEN Signal(tprocs, t)
                       ELSE tprocs
        /\ terminals' = IF t \in DOMAIN terminals THEN EmptyMap ELSE terminals
        /\ sent' = Respond(sent, req.id, EmptyResult)
  /\ UNCHANGED terminalCounter
  /\ UNCHANGED <<proc, stdinOpen, closed>>
  /\ UNCHANGED NotTerm

\* variant of TerminalRelease: the release also removes the listeners of the
\* process
TerminalReleaseDetaches(t) ==
  /\ TermLineArrives
  /\ LET req == TermReq("terminal/release", t)
     IN /\ treqs' = Append(treqs, req)
        /\ tprocs' = IF t \in DOMAIN terminals
                       THEN [(IF terminals[t].exitCode = NoCode
                                THEN Signal(tprocs, t)
                                ELSE tprocs) EXCEPT ![t].listeners = <<>>]
                       ELSE tprocs
        /\ terminals' = MapDelete(terminals, t)
        /\ sent' = Respond(sent, req.id, EmptyResult)
  /\ UNCHANGED terminalCounter
  /\ UNCHANGED <<proc, stdinOpen, closed>>
  /\ UNCHANGED NotTerm

\* variant of TerminalRelease: the entry stays in the registry
TerminalReleaseKeep(t) ==
  /\ TermLineArrives
  /\ LET req == TermReq("terminal/release", t)
     IN /\ treqs' = Append(treqs, req)
        /\ tprocs' = IF t \in DOMAIN terminals /\ terminals[t].exitCode = NoCode
                       THEN Signal(tprocs, t)
                       ELSE tprocs
        /\ UNCHANGED terminals
        /\ sent' = Respond(sent, req.id, EmptyResult)
  /\ UNCHANGED terminalCounter
  /\ UNCHANGED <<proc, stdinOpen, closed>>
  /\ UNCHANGED NotTerm

\* handleTerminalRelease(id, params)
TerminalRelease(t) ==
  /\ TermLineArrives
  /\ LET req == TermReq("terminal/release", t)
     IN /\ treqs' = Append(treqs, req)
        /\ tprocs' = IF t \in DOMAIN terminals /\ terminals[t].exitCode = NoCode
                       THEN Signal(tprocs, t)
                       ELSE tprocs
        /\ terminals' = MapDelete(terminals, t)
        /\ sent' = Respond(sent, req.id, EmptyResult)
  /\ UNCHANGED terminalCounter
  /\ UNCHANGED <<proc, stdinOpen, closed>>
  /\ UNCHANGED NotTerm

\* child.stdout / child.stderr "data": entry.output += d.toString()
\* (the entry of a released handle is no longer reachable)
ProcData(t, chunk) ==
  /\ t \in DOMAIN tprocs
  /\ tprocs[t].running
  /\ t \in DOMAIN terminals
  /\ Len(terminals[t].output) < MaxOutput
  /\ terminals' = [terminals EXCEPT ![t].output = Append(@, chunk)]
  /\ UNCHANGED <<terminalCounter, tprocs, treqs, sent>>
  /\ UNCHANGED <<proc, stdinOpen, closed>>
  /\ UNCHANGED NotTerm

\* the responses of the "close" listeners that terminal/wait_for_exit attached,
\* in the order they were attached
RECURSIVE RespondAll(_, _, _)
RespondAll(out, ids, code) ==
  IF ids = <<>> THEN out
  ELSE RespondAll(Respond(out, Head(ids), [exitCode |-> OrOne(code)]), Tail(ids), code)

\* variant of ProcClose: "close" can be emitted again for a process that has
\* already closed
ProcCloseAgain(t, code) ==
  /\ t \in DOMAIN tprocs
  /\ code = NoCode => tprocs[t].signalled
  /\ tprocs' = [tprocs EXCEPT ![t].running = FALSE, ![t].listeners = <<>>]
  /\ terminals' = IF t \in DOMAIN terminals
                    THEN [terminals EXCEPT ![t].exitCode = code]
                    ELSE terminals
  /\ sent' = RespondAll(sent, tprocs[t].listeners, code)
  /\ UNCHANGED <<terminalCounter, treqs>>
  /\ UNCHANGED <<proc, stdinOpen, closed>>
  /\ UNCHANGED NotTerm

\* the child process emits "close" with its exit code, or with null when a
\* signal terminated it: the listener of terminal/create records the code, then
\* the listeners of terminal/wait_for_exit respond
ProcClose(t, code) ==
  /\ t \in DOMAIN tprocs
  /\ tprocs[t].running
  /\ code = NoCode => tprocs[t].signalled
  /\ tprocs' = [tprocs EXCEPT ![t].running = FALSE, ![t].listeners = <<>>]
  /\ terminals' = IF t \in DOMAIN terminals
                    THEN [terminals EXCEPT ![t].exitCode = code]
                    ELSE terminals
  /\ sent' = RespondAll(sent, tprocs[t].listeners, code)
  /\ UNCHANGED <<terminalCounter, treqs>>
  /\ UNCHANGED <<proc, stdinOpen, closed>>
  /\ UNCHANGED NotTerm

TermInit ==
  /\ terminalCounter = 0
  /\ terminals = EmptyMap
  /\ tprocs = EmptyMap
  /\ treqs = <<>>
  /\ sent = <<>>

\* ------------------------------------------------------------------------
\* index.ts: the prompt lock
\* ------------------------------------------------------------------------

Msgs == 1..MaxMsgs

\* `promptLock = new Promise((resolve) => { promptDone = resolve; })` by call m,
\* which then holds the lock
TakeLock(m) ==
  /\ promises' = promises + 1
  /\ promptLock' = promises + 1
  /\ promptDone' = promises + 1
  /\ inFlight' = inFlight \cup {m}

\* the .then callbacks of a resolved lock promise are microtasks: they run
\* before any other task gets to run
NoCallbackQueued ==
  \A m \in Msgs : msgs[m].pc = "waiting" => msgs[m].waitsOn \notin resolved

\* handleMessage reaches `await acquirePromptLock()`: with no lock it takes the
\* lock and goes on, otherwise it registers a .then callback on the lock
AcquirePromptLock(m) ==
  /\ NoCallbackQueued
  /\ msgs[m].pc = "new"
  /\ IF promptLock = 0
       THEN /\ TakeLock(m)
            /\ msgs' = [msgs EXCEPT ![m].pc = "locked"]
            /\ UNCHANGED waiters
       ELSE /\ msgs' = [msgs EXCEPT ![m].pc = "waiting", ![m].waitsOn = promptLock]
            /\ waiters' = Append(waiters, m)
            /\ UNCHANGED <<promptLock, promptDone, promises, inFlight>>
  /\ UNCHANGED <<resolved, exits>>
  /\ UNCHANGED NotLock

\* position of call m among the registered waiters
WaiterIndex(m) == CHOOSE i \in DOMAIN waiters : waiters[i] = m

\* the .then callback of acquirePromptLock runs for call m: the promise it
\* waited on is resolved, and the callbacks registered before it on that
\* promise have run
ThenCallback(m) ==
  /\ msgs[m].pc = "waiting"
  /\ msgs[m].waitsOn \in resolved
  /\ \A i \in 1..(WaiterIndex(m) - 1) :
       msgs[waiters[i]].waitsOn # msgs[m].waitsOn
  /\ TakeLock(m)
  /\ msgs' = [msgs EXCEPT ![m].pc = "locked"]
  /\ waiters' = SelectSeq(waiters, LAMBDA w : w # m)
  /\ UNCHANGED <<resolved, exits>>
  /\ UNCHANGED NotLock

\* variant of ReleasePromptLock: the resolver is dropped without being called
ReleasePromptLockSilent ==
  /\ promptDone' = 0
  /\ promptLock' = 0
  /\ resolved' = resolved
  /\ inFlight' = {}

\* releasePromptLock()
ReleasePromptLock ==
  /\ promptDone' = 0
  /\ promptLock' = 0
  /\ resolved' = IF promptDone # 0 THEN resolved \cup {promptDone} ELSE resolved
  /\ inFlight' = {}

\* handleMessage, holding the lock, sends the prompt
SendPrompt(m) ==
  /\ NoCallbackQueued
  /\ msgs[m].pc = "locked"
  /\ msgs' = [msgs EXCEPT ![m].pc = "prompted"]
  /\ UNCHANGED <<promptLock, promptDone, promises, resolved, waiters, inFlight, exits>>
  /\ UNCHANGED NotLock

\* handleMessage, holding the lock, fails: the catch block releases the lock
HandleMessageFails(m) ==
  /\ NoCallbackQueued
  /\ msgs[m].pc = "locked"
  /\ msgs' = [msgs EXCEPT ![m].pc = "failed"]
  /\ ReleasePromptLock
  /\ UNCHANGED <<promises, waiters, exits>>
  /\ UNCHANGED NotLock

\* client.on("turn_end") for the prompt of call m
TurnEnd(m) ==
  /\ NoCallbackQueued
  /\ msgs[m].pc = "prompted"
  /\ msgs' = [msgs EXCEPT ![m].pc = "ended"]
  /\ ReleasePromptLock
  /\ UNCHANGED <<promises, waiters, exits>>
  /\ UNCHANGED NotLock

\* client.on("exit") of one of the ACP clients
AgentExit ==
  /\ NoCallbackQueued
  /\ exits < MaxExits
  /\ exits' = exits + 1
  /\ ReleasePromptLock
  /\ UNCHANGED <<promises, msgs, waiters>>
  /\ UNCHANGED NotLock

LockInit ==
  /\ promptLock = 0
  /\ promptDone = 0
  /\ promises = 0
  /\ resolved = {}
  /\ msgs = [m \in Msgs |-> [pc |-> "new", waitsOn |-> 0]]
  /\ waiters = <<>>
  /\ inFlight = {}
  /\ exits = 0

\* ------------------------------------------------------------------------
\* Permission requests: AcpClient.handleLine, wireAcpEvents, app.action(/^perm_/)
\* ------------------------------------------------------------------------

\* the buttons of a permission prompt and the option each one selects
Buttons == {"trust", "approve", "reject"}

OptionOf(button) ==
  CASE button = "trust" -> "allow_always"
    [] button = "approve" -> "allow_once"
    [] OTHER -> "reject_once"

\* resolvePermission(requestId, optionId)
ResolvePermission(out, requestId, optionId) ==
  Respond(out, requestId, [outcome |-> [outcome |-> "selected", optionId |-> optionId]])

\* handleLine for a session/request_permission line: emit "permission"; the
\* listener of wireAcpEvents answers at once (auto approval, or no sender for
\* the session) or registers the action id and posts the prompt.  The action
\* id (`perm_<time>_<random>`) is fresh for every request.
PermissionRequest(s) ==
  /\ proc # "none"
  /\ ~closed
  /\ Len(permReqs) < MaxPermReqs
  /\ LET id == Len(permReqs) + 1
         actionId == Len(permReqs) + 1
     IN /\ permReqs' = Append(permReqs, [id |-> id, session |-> s])
        /\ events' = Append(events, [type |-> "permission", session |-> s, id |-> id])
        /\ IF toolApproval = "auto" \/ s \notin activeSenders
             THEN /\ sent' = ResolvePermission(sent, id, "allow_always")
                  /\ UNCHANGED <<pendingPermissions, posts>>
             ELSE /\ pendingPermissions' =
                       MapSet(pendingPermissions, actionId,
                              [acpRequestId |-> id, sessionId |-> s])
                  /\ posts' = MapSet(posts, actionId, "posting")
                  /\ UNCHANGED sent
  /\ UNCHANGED <<toolApproval, activeSenders, clicks>>
  /\ UNCHANGED NotPerm

\* postPermissionPrompt resolves: the buttons are in the thread
PostSucceeds(a) ==
  /\ a \in DOMAIN posts
  /\ posts[a] = "posting"
  /\ posts' = [posts EXCEPT ![a] = "posted"]
  /\ UNCHANGED <<toolApproval, activeSenders, permReqs, pendingPermissions, clicks,
                 events, sent>>
  /\ UNCHANGED NotPerm

\* variant of PostFails: the .catch only logs the failure
PostFailsLogOnly(a) ==
  /\ a \in DOMAIN posts
  /\ posts[a] = "posting"
  /\ posts' = [posts EXCEPT ![a] = "failed"]
  /\ pendingPermissions' = MapDelete(pendingPermissions, a)
  /\ UNCHANGED <<toolApproval, activeSenders, permReqs, clicks, events, sent>>
  /\ UNCHANGED NotPerm

\* postPermissionPrompt rejects: the .catch answers allow_always and forgets
\* the action id
PostFails(a) ==
  /\ a \in DOMAIN posts
  /\ posts[a] = "posting"
  /\ posts' = [posts EXCEPT ![a] = "failed"]
  /\ sent' = ResolvePermission(sent, pendingPermissions[a].acpRequestId, "allow_always")
  /\ pendingPermissions' = MapDelete(pendingPermissions, a)
  /\ UNCHANGED <<toolApproval, activeSenders, permReqs, clicks, events>>
  /\ UNCHANGED NotPerm

\* variant of ClickEffect: the action id is not deleted
ClickEffectKeep(a, button) ==
  IF a \in DOMAIN pendingPermissions
    THEN /\ UNCHANGED pendingPermissions
         /\ sent' = ResolvePermission(sent, pendingPermissions[a].acpRequestId,
                                      OptionOf(button))
    ELSE UNCHANGED <<pendingPermissions, sent>>

\* `const pending = pendingPermissions.get(actionId); if (!pending) return;
\*  pendingPermissions.delete(actionId); ... resolvePermission(...)`
ClickEffect(a, button) ==
  IF a \in DOMAIN pendingPermissions
    THEN /\ pendingPermissions' = MapDelete(pendingPermissions, a)
         /\ sent' = ResolvePermission(sent, pendingPermissions[a].acpRequestId,
                                      OptionOf(button))
    ELSE UNCHANGED <<pendingPermissions, sent>>

\* app.action(/^perm_/): a click on a button of a posted prompt
Click(a, button) ==
  /\ a \in DOMAIN posts
  /\ posts[a] = "posted"
  /\ clicks[a] < MaxClicks
  /\ clicks' = [clicks EXCEPT ![a] = @ + 1]
  /\ ClickEffect(a, button)
  /\ UNCHANGED <<toolApproval, activeSenders, permReqs, posts, events>>
  /\ UNCHANGED NotPerm

\* handleMessage registers the sender of the session it prompts
SetSender(s) ==
  /\ s \notin activeSenders
  /\ activeSenders' = activeSenders \cup {s}
  /\ UNCHANGED <<toolApproval, permReqs, pendingPermissions, posts, clicks,
                 events, sent>>
  /\ UNCHANGED NotPerm

\* the turn_end listener forgets the sender of the session
DeleteSender(s) ==
  /\ s \in activeSenders
  /\ activeSenders' = activeSenders \ {s}
  /\ UNCHANGED <<toolApproval, permReqs, pendingPermissions, posts, clicks,
                 events, sent>>
  /\ UNCHANGED NotPerm

\* the configuration is fixed during a run
PermInit ==
  /\ toolApproval \in {"auto", "interactive"}
  /\ activeSenders = {}
  /\ permReqs = <<>>
  /\ pendingPermissions = EmptyMap
  /\ posts = EmptyMap
  /\ clicks = [a \in 1..(MaxPermReqs + 1) |-> 0]

\* the state in which nothing of the permission handling has happened: auto
\* approval (the default of config.toolApproval) and no sender
PermIdle ==
  /\ toolApproval = "auto"
  /\ activeSenders = {}
  /\ permReqs = <<>>
  /\ pendingPermissions = EmptyMap
  /\ posts = EmptyMap
  /\ clicks = [a \in 1..(MaxPermReqs + 1) |-> 0]

\* ------------------------------------------------------------------------
\* AcpClient.handleLine, line by line: every kind of inbound line
\* ------------------------------------------------------------------------

\* text that JSON.parse rejects, e.g. a log line of the agent
GarbageLine == [kind |-> "garbage", id |-> 0, err |-> FALSE, session |-> NoSession]

\* a notification with a method other than session/update
OtherNotificationLine ==
  [kind |-> "notification", id |-> 0, err |-> FALSE, session |-> NoSession]

\* the ids the agent gives to its own requests
AgentIds == {7}

\* the JSON text `null`: JSON.parse accepts it and returns null
NullLine == [kind |-> "null", id |-> 0, err |-> FALSE, session |-> NoSession]

\* JSON text that is a value without members, e.g. `42`, `"x"` or `[]`: its
\* `method` and `id` are undefined
ScalarLine == [kind |-> "scalar", id |-> 0, err |-> FALSE, session |-> NoSession]

\* the methods of the agent's requests that the client has a handler for (the
\* permission listener, and of the terminal handlers the one that mints a
\* handle and one that looks a handle up)
ServerMethods == {"session/request_permission", "terminal/create", "terminal/output"}

\* a request of the agent for one of these methods that has no params member
NoParamsLine(method, id) ==
  [kind |-> "noparams", id |-> id, err |-> FALSE, session |-> NoSession,
   method |-> method]

\* handleLine throws: `(msg as any).method` on null, `params.sessionId`,
\* `params.command` or `params.terminalId` on undefined.  Nothing catches it
\* between the handler and the event loop.
Throws(line) == line.kind \in {"null", "noparams"}

\* the lines ReadLine hands to handleLine
LineInputs ==
  {BlankLine, GarbageLine, NullLine, ScalarLine, OtherNotificationLine}
  \cup {NoParamsLine(m, id) : m \in ServerMethods, id \in AgentIds}
  \cup {ResponseLine(id, err) : id \in 0..(nextId - 1), err \in BOOLEAN}
  \cup {UpdateLine(s) : s \in Sessions \cup {NoSession}}
  \cup {OtherRequestLine(id) : id \in AgentIds}

\* variant of UpdateListener: the update of a session without a sender is
\* kept and handed on all the same
UpdateListenerKeep(line) ==
  delivered' = Append(delivered, Len(dispatched) + 1)

\* client.on("update"): without a sender for the session the update is
\* dropped, otherwise its text is appended to the sender
UpdateListener(line) ==
  delivered' = IF line.session \in activeSenders
                 THEN Append(delivered, Len(dispatched) + 1)
                 ELSE delivered

\* the session whose turn_end the line makes the client emit, if any
TurnEndSessions(line) ==
  IF /\ line.kind = "response"
     /\ line.id \in DOMAIN promptRequestIds
     /\ Truthy(promptRequestIds[line.id])
    THEN {promptRequestIds[line.id]}
    ELSE {}

\* handleLine(raw) for one line of LineInputs, with the listeners of
\* wireAcpEvents that the emitted events run (no handleMessage call holds or
\* awaits the prompt lock here, so releasePromptLock changes nothing).  An exception that leaves
\* handleLine leaves the "line" listener too and ends the process: no
\* uncaughtException handler is installed.
ReadLine(line) ==
  /\ proc # "none"
  /\ ~closed
  /\ ~crashed
  /\ Len(dispatched) < MaxDispatched
  /\ dispatched' = Append(dispatched, line)
  /\ CASE line.kind \in {"blank", "garbage", "null", "noparams"} ->
            UNCHANGED <<pending, calls, promptRequestIds, events>>
       [] line.kind = "response" -> HandleResponse(line)
       [] OTHER -> HandleNotification(line)
  /\ crashed' = Throws(line)
  /\ senderLog' = Append(senderLog, line.session \in activeSenders)
  /\ IF line.kind = "update" /\ Truthy(line.session)
       THEN UpdateListener(line)
       ELSE UNCHANGED delivered
  /\ activeSenders' = activeSenders \ TurnEndSessions(line)
  /\ terminalCounter' =
       IF line.kind = "noparams" /\ line.method = "terminal/create"
         THEN terminalCounter + 1
         ELSE terminalCounter
  /\ UNCHANGED <<proc, stdinOpen, closed, initialized, nextId, timers, prompts,
                 arrived>>
  /\ UNCHANGED <<terminals, tprocs, treqs, sent>>
  /\ UNCHANGED <<toolApproval, permReqs, pendingPermissions, posts, clicks>>
  /\ UNCHANGED <<lockVars, sessVars, sendVars>>

LineInit ==
  /\ dispatched = <<>>
  /\ crashed = FALSE
  /\ senderLog = <<>>
  /\ delivered = <<>>

\* ------------------------------------------------------------------------
\* index.ts: handleMessage chooses the session of a thread
\* ------------------------------------------------------------------------

Threads == 1..MaxThreads

\* the handleMessage calls of the runs that follow the session of a thread
SessMsgs == 1..MaxSessMsgs

\* the session id that sessions.json holds for a thread at start-up
StoredId(t) == 10 + t

\* what the session steps leave alone, apart from the lock and activeSenders
NotSess == <<acpVars, termVars, lineVars, sendVars, toolApproval, permReqs,
             pendingPermissions, posts, clicks>>

LockHeld == <<promptLock, promptDone, promises, resolved, msgs, waiters, inFlight,
              exits>>

\* `const existing = getSession(channel, threadTs)`, then the branch on it
GetSession(m) ==
  /\ NoCallbackQueued
  /\ msgs[m].pc = "locked"
  /\ hm[m].step = "begin"
  /\ hm' = [hm EXCEPT ![m].existing = store[hm[m].thread],
                      ![m].sessionId = store[hm[m].thread],
                      ![m].step = IF store[hm[m].thread] # 0 THEN "load" ELSE "create"]
  /\ UNCHANGED <<store, ops, sessionCounter, activeSenders>>
  /\ UNCHANGED LockHeld
  /\ UNCHANGED NotSess

\* the catch block of handleMessage: log and releasePromptLock()
FailMessage(m) ==
  /\ msgs' = [msgs EXCEPT ![m].pc = "failed"]
  /\ ReleasePromptLock
  /\ UNCHANGED <<promises, waiters, exits>>

\* `await getAcpClient(agent)` rejects (the agent could not be started)
GetAcpClientFails(m) ==
  /\ NoCallbackQueued
  /\ msgs[m].pc = "locked"
  /\ hm[m].step \in {"load", "create"}
  /\ hm' = [hm EXCEPT ![m].step = "failed"]
  /\ FailMessage(m)
  /\ UNCHANGED <<store, ops, sessionCounter, activeSenders>>
  /\ UNCHANGED NotSess

\* variant of LoadSession: a new session is created after a successful load
\* too
LoadSessionThenNew(m, ok) ==
  /\ NoCallbackQueued
  /\ msgs[m].pc = "locked"
  /\ hm[m].step = "load"
  /\ ops' = Append(ops, [msg |-> m, op |-> "session/load", session |-> hm[m].sessionId])
  /\ hm' = [hm EXCEPT ![m].step = "recreate", ![m].loadFailed = ~ok]
  /\ UNCHANGED <<store, sessionCounter, activeSenders>>
  /\ UNCHANGED LockHeld
  /\ UNCHANGED NotSess

\* `await acpClient.loadSession(sessionId, cwd)` for the stored session: it
\* resolves, or it rejects and the catch goes on to create a session
LoadSession(m, ok) ==
  /\ NoCallbackQueued
  /\ msgs[m].pc = "locked"
  /\ hm[m].step = "load"
  /\ ops' = Append(ops, [msg |-> m, op |-> "session/load", session |-> hm[m].sessionId])
  /\ hm' = [hm EXCEPT ![m].step = IF ok THEN "prompt" ELSE "recreate",
                      ![m].loadFailed = ~ok]
  /\ UNCHANGED <<store, sessionCounter, activeSenders>>
  /\ UNCHANGED LockHeld
  /\ UNCHANGED NotSess

\* `const info = await acpClient.createSession(ws)`, then setSession: the
\* agent mints an id, which replaces the stored one; a rejection leaves
\* handleMessage through its catch block
CreateSession(m, ok) ==
  /\ NoCallbackQueued
  /\ msgs[m].pc = "locked"
  /\ hm[m].step \in {"create", "recreate"}
  /\ ops' = Append(ops, [msg |-> m, op |-> "session/new", session |-> 0])
  /\ IF ok
       THEN /\ sessionCounter' = sessionCounter + 1
            /\ hm' = [hm EXCEPT ![m].sessionId = sessionCounter + 1,
                                ![m].step = "prompt"]
            /\ store' = [store EXCEPT ![hm[m].thread] = sessionCounter + 1]
            /\ UNCHANGED LockHeld
       ELSE /\ hm' = [hm EXCEPT ![m].step = "failed"]
            /\ FailMessage(m)
            /\ UNCHANGED <<store, sessionCounter>>
  /\ UNCHANGED activeSenders
  /\ UNCHANGED NotSess

\* `activeSenders.set(sessionId, sender); await acpClient.prompt(sessionId, ...)`:
\* the prompt is written, or send() throws and the catch block runs
PromptSession(m, ok) ==
  /\ NoCallbackQueued
  /\ msgs[m].pc = "locked"
  /\ hm[m].step = "prompt"
  /\ activeSenders' = activeSenders \cup {hm[m].sessionId}
  /\ ops' = Append(ops, [msg |-> m, op |-> "session/prompt", session |-> hm[m].sessionId])
  /\ IF ok
       THEN /\ msgs' = [msgs EXCEPT ![m].pc = "prompted"]
            /\ hm' = [hm EXCEPT ![m].step = "prompted"]
            /\ UNCHANGED <<promptLock, promptDone, promises, resolved, waiters,
                           inFlight, exits>>
       ELSE /\ hm' = [hm EXCEPT ![m].step = "failed"]
            /\ FailMessage(m)
  /\ UNCHANGED <<store, sessionCounter>>
  /\ UNCHANGED NotSess

NewMessage(t) ==
  [thread |-> t, step |-> "begin", existing |-> 0, sessionId |-> 0, loadFailed |-> FALSE]

\* the messages arrive in any of the threads (the calls, which are alike, are
\* numbered by thread); sessions.json holds a session for any of the threads
\* or for none
SessInit ==
  /\ store \in [Threads -> {0} \cup {StoredId(t) : t \in Threads}]
  /\ \A t \in Threads : store[t] \in {0, StoredId(t)}
  /\ hm \in [Msgs -> {NewMessage(t) : t \in Threads}]
  /\ \A m \in Msgs \ SessMsgs : hm[m] = NewMessage(1)
  /\ \A m1, m2 \in SessMsgs : m1 < m2 => hm[m1].thread <= hm[m2].thread
  /\ ops = <<>>
  /\ sessionCounter = 0

\* no message is being handled
SessIdle ==
  /\ store = [t \in Threads |-> 0]
  /\ hm = [m \in Msgs |-> NewMessage(1)]
  /\ ops = <<>>
  /\ sessionCounter = 0

\* ------------------------------------------------------------------------
\* SlackSender: the append queue
\* ------------------------------------------------------------------------

\* what the sender leaves alone
NotSend == <<acpVars, termVars, lockVars, permVars, lineVars, sessVars>>

\* doAppend k has completed or failed
Settled(k) == appends[k] \in {"done", "failed"}

\* appendDelta(delta): `this.queue = this.queue.then(() => this.doAppend(delta))
\* .catch(...)`: the append is chained behind the queue
AppendDelta ==
  /\ Len(appends) < MaxAppends
  /\ appends' = Append(appends, "queued")
  /\ UNCHANGED <<finishPc, finishAfter, streamLog>>
  /\ UNCHANGED NotSend

\* the .then callback of append k runs: the queue before it has settled (its
\* .catch turned a failure into a fulfilment); a finish() that awaits that
\* queue registered first and resumes first
DoAppendStart(k) ==
  /\ k \in DOMAIN appends
  /\ appends[k] = "queued"
  /\ \A j \in 1..(k - 1) : Settled(j)
  /\ finishPc = "waiting" => k <= finishAfter
  /\ appends' = [appends EXCEPT ![k] = "running"]
  /\ streamLog' = Append(streamLog, [op |-> "start", k |-> k])
  /\ UNCHANGED <<finishPc, finishAfter>>
  /\ UNCHANGED NotSend

\* doAppend k returns, or throws and the .catch of appendDelta logs it
DoAppendEnd(k, ok) ==
  /\ k \in DOMAIN appends
  /\ appends[k] = "running"
  /\ appends' = [appends EXCEPT ![k] = IF ok THEN "done" ELSE "failed"]
  /\ streamLog' = Append(streamLog, [op |-> "end", k |-> k])
  /\ UNCHANGED <<finishPc, finishAfter>>
  /\ UNCHANGED NotSend

\* finish() is called (by the turn_end listener): `await this.queue`
Finish ==
  /\ finishPc = "idle"
  /\ finishPc' = "waiting"
  /\ finishAfter' = Len(appends)
  /\ UNCHANGED <<appends, streamLog>>
  /\ UNCHANGED NotSend

\* variant of FinishResume: finish() does not await the queue
FinishResumeAtOnce ==
  /\ finishPc = "waiting"
  /\ finishPc' = "stopped"
  /\ streamLog' = IF \E k \in DOMAIN appends : appends[k] # "queued"
                    THEN Append(streamLog, [op |-> "stop", k |-> 0])
                    ELSE streamLog
  /\ UNCHANGED <<appends, finishAfter>>
  /\ UNCHANGED NotSend

\* finish() resumes once the queue it awaited has settled: `if (this.streamer)
\* { ...; await this.streamer.stop(); ... }` (there is a streamer once a
\* doAppend has started)
FinishResume ==
  /\ finishPc = "waiting"
  /\ \A k \in 1..finishAfter : Settled(k)
  /\ finishPc' = "stopped"
  /\ streamLog' = IF \E k \in DOMAIN appends : appends[k] # "queued"
                    THEN Append(streamLog, [op |-> "stop", k |-> 0])
                    ELSE streamLog
  /\ UNCHANGED <<appends, finishAfter>>
  /\ UNCHANGED NotSend

SenderInit ==
  /\ appends = <<>>
  /\ finishPc = "idle"
  /\ finishAfter = 0
  /\ streamLog = <<>>

\* ------------------------------------------------------------------------
\* Specification of the client-initiated side
\* ------------------------------------------------------------------------
AcpInit ==
  /\ proc = "none"
  /\ stdinOpen = FALSE
  /\ closed = FALSE
  /\ initialized = FALSE
  /\ nextId = 1
  /\ pending = EmptyMap
  /\ promptRequestIds = EmptyMap
  /\ timers = {}
  /\ calls = <<>>
  /\ prompts = <<>>
  /\ arrived = <<>>
  /\ events = <<>>

\* lines without a session/update notification
CallLines == {l \in InboundLines : l.kind # "update"}

\* control calls (initialize, session/new, session/cancel), their responses,
\* timers, close and kill
InitCalls == AcpInit /\ TermInit /\ LockInit /\ PermIdle /\ LineInit
  /\ SessIdle /\ SenderInit

NextCalls ==
  \/ Start
  \/ InitializeDone
  \/ \E m \in ControlMethods : Request(m)
  \/ \E c \in timers : TimerFire(c)
  \/ Close
  \/ Kill
  \/ \E line \in CallLines : HandleLine(line)

SpecCalls == InitCalls /\ [][NextCalls]_vars

\* prompts, session updates and the events they emit; the only control call
\* is the initialize request of start()
InitEvents == AcpInit /\ TermInit /\ LockInit /\ PermIdle /\ LineInit
  /\ SessIdle /\ SenderInit

NextEvents ==
  \/ Start
  \/ InitializeDone
  \/ \E s \in Sessions : Prompt(s)
  \/ \E c \in timers : TimerFire(c)
  \/ Close
  \/ Kill
  \/ \E line \in InboundLines : HandleLine(line)

SpecEvents == InitEvents /\ [][NextEvents]_vars

\* the terminal/* requests of the agent, the spawned processes, and the close
\* of the agent process
InitTerm == AcpInit /\ TermInit /\ LockInit /\ PermIdle /\ LineInit
  /\ SessIdle /\ SenderInit

NextTerm ==
  \/ Start
  \/ Close
  \/ terminalCounter < MaxTerminals /\ TerminalCreate
  \/ \E t \in Handles : TerminalOutput(t)
  \/ \E t \in Handles : TerminalWaitForExit(t)
  \/ \E t \in Handles : TerminalKill(t)
  \/ \E t \in Handles : TerminalRelease(t)
  \/ \E t \in DOMAIN tprocs, chunk \in Chunks : ProcData(t, chunk)
  \/ \E t \in DOMAIN tprocs, c \in ExitCodes : ProcClose(t, Code(c))
  \/ \E t \in DOMAIN tprocs : ProcClose(t, NoCode)

SpecTerm == InitTerm /\ [][NextTerm]_vars

\* the prompt lock of index.ts: concurrent handleMessage calls, turn ends,
\* failures and client exits
InitLock == AcpInit /\ TermInit /\ LockInit /\ PermIdle /\ LineInit
  /\ SessIdle /\ SenderInit

NextLock ==
  \/ \E m \in Msgs : AcquirePromptLock(m)
  \/ \E m \in Msgs : ThenCallback(m)
  \/ \E m \in Msgs : SendPrompt(m)
  \/ \E m \in Msgs : HandleMessageFails(m)
  \/ \E m \in Msgs : TurnEnd(m)
  \/ AgentExit

SpecLock == InitLock /\ [][NextLock]_vars

\* the prompt lock under the scheduling of the event loop: a queued .then
\* callback runs, a call that holds the lock sends its prompt or fails, and a
\* prompt in flight ends with its turn_end
LockFairness ==
  /\ \A m \in Msgs : WF_vars(ThenCallback(m))
  /\ \A m \in Msgs : WF_vars(SendPrompt(m) \/ HandleMessageFails(m))
  /\ \A m \in Msgs : WF_vars(TurnEnd(m))

SpecLockFair == InitLock /\ [][NextLock]_vars /\ LockFairness

\* permission requests of the agent, the posting of the prompt, button clicks
\* and the close of the agent process
InitPerm == AcpInit /\ TermInit /\ LockInit /\ PermInit /\ LineInit
  /\ SessIdle /\ SenderInit

NextPerm ==
  \/ Start
  \/ Close
  \/ \E s \in Sessions : SetSender(s)
  \/ \E s \in Sessions : DeleteSender(s)
  \/ \E s \in Sessions : PermissionRequest(s)
  \/ \E a \in DOMAIN posts : PostSucceeds(a)
  \/ \E a \in DOMAIN posts : PostFails(a)
  \/ \E a \in DOMAIN posts, b \in Buttons : Click(a, b)

SpecPerm == InitPerm /\ [][NextPerm]_vars

\* the line listener on every kind of line, with prompts, the senders that
\* handleMessage registers, and the close of the agent process
InitLines == AcpInit /\ TermInit /\ LockInit /\ PermIdle /\ LineInit
  /\ SessIdle /\ SenderInit

NextLines ==
  \/ ~crashed /\ Start
  \/ ~crashed /\ InitializeDone
  \/ ~crashed /\ \E s \in Sessions : Prompt(s)
  \/ ~crashed /\ initialized /\ \E s \in Sessions : SetSender(s)
  \/ ~crashed /\ Close
  \/ \E line \in LineInputs : ReadLine(line)

SpecLines == InitLines /\ [][NextLines]_vars

\* the lines of the runs with control calls and prompts together: a result
\* for any id issued so far, and an error for the initialize request
OpsLines ==
  {ResponseLine(id, FALSE) : id \in 1..(nextId - 1)} \cup {ResponseLine(1, TRUE)}

\* control calls and prompts of one client together, their responses, timers,
\* close and kill
InitOps == AcpInit /\ TermInit /\ LockInit /\ PermIdle /\ LineInit
  /\ SessIdle /\ SenderInit

NextOps ==
  \/ Start
  \/ InitializeDone
  \/ Len(calls) < MaxOpsCalls /\ \E m \in ControlMethods : Request(m)
  \/ \E s \in Sessions : Prompt(s)
  \/ \E c \in timers : TimerFire(c)
  \/ Close
  \/ Kill
  \/ \E line \in OpsLines : HandleLine(line)

SpecOps == InitOps /\ [][NextOps]_vars

\* control calls with the error event of the agent process, beside close and
\* kill
InitErr == AcpInit /\ TermInit /\ LockInit /\ PermIdle /\ LineInit
  /\ SessIdle /\ SenderInit

NextErr ==
  \/ Start
  \/ InitializeDone
  \/ \E m \in ControlMethods : Request(m)
  \/ \E c \in timers : TimerFire(c)
  \/ ProcError
  \/ Close
  \/ Kill
  \/ \E line \in OpsLines : HandleLine(line)

SpecErr == InitErr /\ [][NextErr]_vars

\* the lines of the runs about the scope of a failure: a result or an error
\* for a pending call, a result for a tracked prompt
ScopeLines ==
  {ResponseLine(id, err) : id \in DOMAIN pending, err \in BOOLEAN}
  \cup {ResponseLine(id, FALSE) : id \in DOMAIN promptRequestIds}

\* control calls, a prompt and a terminal side by side, with error responses,
\* timeouts and close
InitScope == AcpInit /\ TermInit /\ LockInit /\ PermIdle /\ LineInit
  /\ SessIdle /\ SenderInit

NextScope ==
  \/ Start
  \/ InitializeDone
  \/ \E m \in ControlMethods : Request(m)
  \/ Prompt("s1")
  \/ terminalCounter < MaxTerminals /\ TerminalCreate
  \/ \E c \in timers : TimerFire(c)
  \/ Close
  \/ \E line \in ScopeLines : HandleLine(line)

SpecScope == InitScope /\ [][NextScope]_vars

\* the lines of the runs with an outstanding wait_for_exit: the response to
\* initialize and an update of a session
WaitLines == {ResponseLine(1, FALSE), UpdateLine("s1")}

\* terminal requests and other inbound lines while a wait_for_exit is
\* outstanding
InitWait == AcpInit /\ TermInit /\ LockInit /\ PermIdle /\ LineInit
  /\ SessIdle /\ SenderInit

NextWait ==
  \/ Start
  \/ terminalCounter < MaxWaitTerminals /\ TerminalCreate
  \/ \E t \in Handles : TerminalWaitForExit(t)
  \/ \E t \in Handles : TerminalOutput(t)
  \/ \E t \in Handles : TerminalKill(t)
  \/ \E line \in WaitLines : HandleLine(line)
  \/ \E t \in DOMAIN tprocs, c \in ExitCodes : ProcClose(t, Code(c))
  \/ \E t \in DOMAIN tprocs : ProcClose(t, NoCode)

SpecWait == InitWait /\ [][NextWait]_vars

\* several terminals live at once: every terminal request on every handle,
\* and the output and exit of every process
InitMulti == AcpInit /\ TermInit /\ LockInit /\ PermIdle /\ LineInit
  /\ SessIdle /\ SenderInit

NextMulti ==
  \/ Start
  \/ terminalCounter < MaxWaitTerminals /\ TerminalCreate
  \/ \E t \in Handles : TerminalOutput(t)
  \/ \E t \in Handles : TerminalWaitForExit(t)
  \/ \E t \in Handles : TerminalKill(t)
  \/ \E t \in Handles : TerminalRelease(t)
  \/ \E t \in DOMAIN tprocs, chunk \in Chunks : ProcData(t, chunk)
  \/ \E t \in DOMAIN tprocs, c \in ExitCodes : ProcClose(t, Code(c))
  \/ \E t \in DOMAIN tprocs : ProcClose(t, NoCode)

SpecMulti == InitMulti /\ [][NextMulti]_vars

\* messages of threads with and without a stored session, behind the prompt
\* lock
InitSess == AcpInit /\ TermInit /\ LockInit /\ PermIdle /\ LineInit
  /\ SessInit /\ SenderInit

NextSess ==
  \/ \E m \in SessMsgs : AcquirePromptLock(m)
  \/ \E m \in SessMsgs : ThenCallback(m)
  \/ \E m \in SessMsgs : GetSession(m)
  \/ \E m \in SessMsgs : GetAcpClientFails(m)
  \/ \E m \in SessMsgs, ok \in BOOLEAN : LoadSession(m, ok)
  \/ \E m \in SessMsgs, ok \in BOOLEAN : CreateSession(m, ok)
  \/ \E m \in SessMsgs, ok \in BOOLEAN : PromptSession(m, ok)
  \/ \E m \in SessMsgs : TurnEnd(m)

SpecSess == InitSess /\ [][NextSess]_vars

\* a session/update line that also carries an id
UpdateLineWithId(id, s) == [kind |-> "update", id |-> id, err |-> FALSE, session |-> s]

\* the lines of the runs in which the agent reuses the ids of the client: for
\* every outstanding id a request with a method the client has no branch for,
\* a session/update carrying the id, and the response
IdLines ==
  {OtherRequestLine(id) : id \in OutstandingIds}
  \cup {UpdateLineWithId(id, "s1") : id \in OutstandingIds}
  \cup {ResponseLine(id, FALSE) : id \in OutstandingIds}

\* the agent numbers its own requests from 1, as the client does: lines with a
\* method and the id of an outstanding request or prompt
InitIds == AcpInit /\ TermInit /\ LockInit /\ PermIdle /\ LineInit
  /\ SessIdle /\ SenderInit

NextIds ==
  \/ Start
  \/ InitializeDone
  \/ Prompt("s1")
  \/ \E line \in IdLines : ReadLine(line)
  \/ \E t \in Handles : TerminalOutput(t)
  \/ PermissionRequest("s1")

SpecIds == InitIds /\ [][NextIds]_vars

\* one SlackSender: appendDelta calls, the doAppend runs and finish()
InitSend == AcpInit /\ TermInit /\ LockInit /\ PermIdle /\ LineInit
  /\ SessIdle /\ SenderInit

NextSend ==
  \/ AppendDelta
  \/ \E k \in DOMAIN appends : DoAppendStart(k)
  \/ \E k \in DOMAIN appends, ok \in BOOLEAN : DoAppendEnd(k, ok)
  \/ Finish
  \/ FinishResume

SpecSend == InitSend /\ [][NextSend]_vars

\* ------------------------------------------------------------------------
\* Claims about client-initiated requests (SpecCalls)
\* ------------------------------------------------------------------------

SettleCauses == {"result", "error", "close", "timeout"}

\* C1: every correlation id issued by request() is settled by exactly one of
\* {result response, error response or stream close, 60 s timeout}, exactly
\* once: never twice, never by anything else, and a call is not left unsettled
\* once the stream has closed.  Fails for an id whose line could not be
\* written.
C1_EachIdSettledExactlyOnce ==
  \A c \in DOMAIN calls :
    /\ Len(calls[c].settles) <= 1
    /\ \A i \in DOMAIN calls[c].settles : calls[c].settles[i].how \in SettleCauses
    /\ closed => calls[c].settles # <<>>

\* C2: a result or error delivered to a request() caller comes from the
\* response line whose id is the id written for that call, whatever the order
\* in which the outstanding requests are answered.
C2_ResponseRoutedById ==
  \A c \in DOMAIN calls :
    \A i \in DOMAIN calls[c].settles :
      calls[c].settles[i].how \in {"result", "error"}
        => calls[c].settles[i].rid = calls[c].id

\* two session requests outstanding at once, the later one answered first
C2_OutOfOrderAnswered ==
  /\ Len(calls) = 3
  /\ calls[3].settles = <<[how |-> "result", rid |-> calls[3].id]>>
  /\ calls[2].settles = <<>>
  /\ calls[2].id \in DOMAIN pending

\* C3: the close handler rejects every call that is pending when the agent
\* process closes and leaves the pending table empty; once the process has
\* closed no request() caller is left unsettled.
C3_CloseRejectsAllPending ==
  /\ [][(~closed /\ closed') =>
          /\ pending' = EmptyMap
          /\ \A id \in DOMAIN pending :
               calls'[pending[id]].settles =
                 Append(calls[pending[id]].settles, [how |-> "close", rid |-> 0])]_vars
  /\ [](closed => \A c \in DOMAIN calls : calls[c].settles # <<>>)

\* the process closed while two calls were pending: both are rejected by it
C3_TwoRejectedByClose ==
  /\ closed
  /\ pending = EmptyMap
  /\ Cardinality({c \in DOMAIN calls :
                    calls[c].settles = <<[how |-> "close", rid |-> 0]>>}) >= 2

\* ------------------------------------------------------------------------
\* Claims about prompts and session updates (SpecEvents)
\* ------------------------------------------------------------------------

TurnEnds(id) ==
  {i \in DOMAIN events : events[i].type = "turn_end" /\ events[i].id = id}

ResponsesTo(id) ==
  {j \in DOMAIN arrived : arrived[j].kind = "response" /\ arrived[j].id = id}

\* C5: the response to a prompt's correlation id emits exactly one turn_end,
\* carrying the prompt's sessionId; a response to a non-prompt request emits
\* none, and a further response with the same id emits no further turn_end.
C5_OneTurnEndPerPrompt ==
  /\ \A i \in DOMAIN events :
       events[i].type = "turn_end" =>
         \E k \in DOMAIN prompts : /\ prompts[k].id = events[i].id
                                   /\ prompts[k].session = events[i].session
  /\ \A k \in DOMAIN prompts :
       Cardinality(TurnEnds(prompts[k].id)) =
         IF ResponsesTo(prompts[k].id) # {} THEN 1 ELSE 0

\* a prompt was answered twice (and the initialize request was answered too)
C5_PromptAnsweredTwice ==
  /\ initialized
  /\ \E k \in DOMAIN prompts :
       /\ Cardinality(ResponsesTo(prompts[k].id)) >= 2
       /\ Cardinality(TurnEnds(prompts[k].id)) = 1

\* the session a prompt id was issued for
SessionOfPrompt(id) ==
  LET k == CHOOSE k \in DOMAIN prompts : prompts[k].id = id
  IN prompts[k].session

\* the event the i-th logged line has to produce, as a sequence of length 0 or 1
ExpectedEvent(i) ==
  IF arrived[i].kind = "update"
    THEN IF arrived[i].session \in Sessions
           THEN <<[type |-> "update", session |-> arrived[i].session, id |-> 0]>>
           ELSE <<>>
    ELSE IF \E j \in 1..(i - 1) : arrived[j] .kind = "response"
                                  /\ arrived[j].id = arrived[i].id
           THEN <<>>
           ELSE <<[type |-> "turn_end", session |-> SessionOfPrompt(arrived[i].id),
                   id |-> arrived[i].id]>>

RECURSIVE ExpectedEvents(_)
ExpectedEvents(n) ==
  IF n = 0 THEN <<>> ELSE ExpectedEvents(n - 1) \o ExpectedEvent(n)

IsSessionEvent(e) == e.type # "exit"

\* C6: update events are emitted in exactly the order their lines arrive, and
\* an update whose line arrives before the response to a prompt is emitted
\* before that prompt's turn_end: the emitted update and turn_end events are
\* the arrived lines' events, in arrival order.
C6_EventsInArrivalOrder ==
  SelectSeq(events, IsSessionEvent) = ExpectedEvents(Len(arrived))

\* two updates for a session, then the response to its prompt
C6_TwoUpdatesThenTurnEnd ==
  \E s \in Sessions :
    /\ Len(events) >= 3
    /\ events[1] = [type |-> "update", session |-> s, id |-> 0]
    /\ events[2] = [type |-> "update", session |-> s, id |-> 0]
    /\ events[3].type = "turn_end"
    /\ events[3].session = s

\* ------------------------------------------------------------------------
\* Claims about the terminal requests of the agent (SpecTerm)
\* ------------------------------------------------------------------------

\* the response lines written for request id
ResponsesFor(id) == {i \in DOMAIN sent : sent[i].id = id}

IsWait(r) == r.method = "terminal/wait_for_exit"

\* C4: every terminal/* request received is answered with exactly one response
\* line carrying its id: never two, and never none, except while the process a
\* wait_for_exit waits for is still running (or once the agent itself has
\* closed and nothing can be written).  Fails for a wait_for_exit on a
\* process that a signal terminated (C10).
C4_TerminalRequestAnsweredOnce ==
  \A k \in DOMAIN treqs :
    LET r == treqs[k]
        n == Cardinality(ResponsesFor(r.id))
    IN /\ n <= 1
       /\ n = 0 => \/ closed
                   \/ IsWait(r) /\ r.term \in DOMAIN tprocs /\ tprocs[r.term].running

\* C9: for a registered handle, a wait_for_exit dispatched before the process
\* terminated and one dispatched after it terminated are both answered, with
\* the same exitCode.  Fails when a signal terminated the process (C10).
C9_WaitBeforeAndAfterAgree ==
  \A k1, k2 \in DOMAIN treqs :
    LET r1 == treqs[k1]
        r2 == treqs[k2]
    IN (/\ IsWait(r1) /\ IsWait(r2)
        /\ r1.term = r2.term
        /\ r1.registered /\ r2.registered
        /\ ~r1.terminated /\ r2.terminated)
       => /\ Cardinality(ResponsesFor(r1.id)) = 1
          /\ Cardinality(ResponsesFor(r2.id)) = 1
          /\ \A i \in ResponsesFor(r1.id), j \in ResponsesFor(r2.id) :
               sent[i].result = sent[j].result

\* C10: a wait_for_exit for a registered handle whose process has already
\* terminated, by exit or by signal, is answered in the step that dispatches it.
C10_WaitAfterExitAnsweredAtOnce ==
  \A k \in DOMAIN treqs :
    (IsWait(treqs[k]) /\ treqs[k].registered /\ treqs[k].terminated)
      => Cardinality(ResponsesFor(treqs[k].id)) = 1

\* the answer of terminal/output for a handle that is not in the registry
NotFoundOutput == [output |-> <<>>, truncated |-> FALSE]

\* a terminal/release for the handle of request k was dispatched before it
ReleasedBefore(k) ==
  \E j \in 1..(k - 1) :
    /\ treqs[j].method = "terminal/release"
    /\ treqs[j].term = treqs[k].term

\* C11: after terminal/release of a handle, every later terminal/output for
\* that handle is answered as not found (empty output, no exit status): never
\* with the output buffered before the release, never with an exit status.
C11_OutputAfterReleaseNotFound ==
  \A k \in DOMAIN treqs :
    (treqs[k].method = "terminal/output" /\ ReleasedBefore(k))
      => \A i \in ResponsesFor(treqs[k].id) : sent[i].result = NotFoundOutput

\* a handle with buffered output or an exit status was released, and a later
\* terminal/output for it has been answered
C11_OutputAskedAfterRelease ==
  \E k1, k2 \in DOMAIN treqs :
    /\ k1 < k2
    /\ treqs[k1].method = "terminal/output" /\ treqs[k2].method = "terminal/output"
    /\ treqs[k1].term = treqs[k2].term
    /\ ReleasedBefore(k2) /\ ~ReleasedBefore(k1)
    /\ \E i \in ResponsesFor(treqs[k1].id) : sent[i].result.output # <<>>
    /\ ResponsesFor(treqs[k2].id) # {}

\* the response to request k reports an exit status
HasExitStatus(k) ==
  \E i \in ResponsesFor(treqs[k].id) : "exitStatus" \in DOMAIN sent[i].result

\* C19: a recorded exit code that is not null never changes and never becomes
\* null again, and once a terminal/output for a handle has reported an exit
\* status, every later terminal/output for the handle reports the same one
\* until the handle is released.
C19_ExitCodeStable ==
  /\ [][\A t \in DOMAIN terminals :
          (terminals[t].exitCode # NoCode /\ t \in DOMAIN terminals')
            => terminals'[t].exitCode = terminals[t].exitCode]_vars
  /\ [](\A k1, k2 \in DOMAIN treqs :
          (/\ k1 < k2
           /\ treqs[k1].method = "terminal/output"
           /\ treqs[k2].method = "terminal/output"
           /\ treqs[k1].term = treqs[k2].term
           /\ treqs[k2].registered
           /\ HasExitStatus(k1))
            => \A i \in ResponsesFor(treqs[k1].id), j \in ResponsesFor(treqs[k2].id) :
                 /\ "exitStatus" \in DOMAIN sent[j].result
                 /\ sent[j].result.exitStatus = sent[i].result.exitStatus)

\* two terminal/output requests for one handle were answered after its process
\* had exited
C19_ExitStatusReportedTwice ==
  \E k1, k2 \in DOMAIN treqs :
    /\ k1 < k2
    /\ treqs[k1].term = treqs[k2].term
    /\ HasExitStatus(k1)
    /\ HasExitStatus(k2)

\* the methods that look a handle up without minting or releasing one
LookupMethods == {"terminal/output", "terminal/wait_for_exit", "terminal/kill"}

\* what each of them answers for a handle that is not in the registry
DefaultResult(method) ==
  CASE method = "terminal/output" -> NotFoundOutput
    [] method = "terminal/wait_for_exit" -> [exitCode |-> 1]
    [] OTHER -> EmptyResult

\* C20: terminal/output, terminal/wait_for_exit and terminal/kill for a handle
\* that was never created or has been released are answered in the step that
\* dispatches them, with the empty or default result, and change nothing in
\* the registry or the spawned processes.
C20_UnknownHandleAnswered ==
  [][\A t \in Handles, m \in LookupMethods :
       (t \notin DOMAIN terminals /\ treqs' = Append(treqs, TermReq(m, t)))
         => /\ sent' = Append(sent, [id |-> Len(treqs) + 1, result |-> DefaultResult(m)])
            /\ UNCHANGED <<terminals, terminalCounter, tprocs>>]_vars

\* a terminal/wait_for_exit for a released handle and a request for a handle
\* that was never created have been answered
C20_UnknownHandlesAsked ==
  /\ \E k \in DOMAIN treqs :
       /\ treqs[k].method = "terminal/wait_for_exit"
       /\ ReleasedBefore(k)
       /\ ResponsesFor(treqs[k].id) # {}
  /\ \E k \in DOMAIN treqs :
       /\ treqs[k].method \in LookupMethods
       /\ treqs[k].term = 0
       /\ ResponsesFor(treqs[k].id) # {}

\* C21: terminal/kill signals the process of a registered handle while it is
\* still running; for a handle whose process has terminated (by exit or by an
\* earlier kill), or that was already signalled, it changes nothing in the
\* registry or the processes; in every case it is answered in the same step.
C21_KillIdempotent ==
  [][\A t \in Handles :
       (treqs' = Append(treqs, TermReq("terminal/kill", t)))
         => /\ sent' = Append(sent, [id |-> Len(treqs) + 1, result |-> EmptyResult])
            /\ UNCHANGED <<terminals, terminalCounter>>
            /\ (t \in DOMAIN terminals /\ tprocs[t].running)
                 => tprocs' = [tprocs EXCEPT ![t].signalled = TRUE]
            /\ (t \notin DOMAIN terminals \/ ~tprocs[t].running \/ tprocs[t].signalled)
                 => UNCHANGED tprocs]_vars

\* a handle was killed, its process terminated, and a second kill for the
\* handle was answered
C21_KilledTwice ==
  \E k1, k2 \in DOMAIN treqs :
    /\ k1 < k2
    /\ treqs[k1].method = "terminal/kill" /\ treqs[k2].method = "terminal/kill"
    /\ treqs[k1].term = treqs[k2].term
    /\ treqs[k1].registered /\ ~treqs[k1].terminated
    /\ treqs[k2].registered /\ treqs[k2].terminated
    /\ ResponsesFor(treqs[k2].id) # {}

\* C22: a terminal/output dispatched for a registered handle whose process has
\* produced no bytes and has not exited is answered with an empty output and
\* no exit status (a result, not an error).
C22_OutputBeforeAnyBytes ==
  [][\A t \in Handles :
       (/\ treqs' = Append(treqs, TermReq("terminal/output", t))
        /\ t \in DOMAIN terminals
        /\ terminals[t].output = <<>>
        /\ tprocs[t].running)
         => sent' = Append(sent, [id |-> Len(treqs) + 1,
                                  result |-> [output |-> <<>>, truncated |-> FALSE]])]_vars

\* terminal/output was the request right after the terminal/create that
\* minted its handle, and it has been answered
C22_OutputRightAfterCreate ==
  \E k \in DOMAIN treqs :
    /\ k > 1
    /\ treqs[k - 1].method = "terminal/create"
    /\ treqs[k].method = "terminal/output"
    /\ \E i \in ResponsesFor(treqs[k - 1].id) :
         sent[i].result = [terminalId |-> treqs[k].term]
    /\ treqs[k].registered /\ ~treqs[k].terminated
    /\ \E i \in ResponsesFor(treqs[k].id) : sent[i].result.output = <<>>

\* a is a prefix of b
IsPrefix(a, b) == Len(a) <= Len(b) /\ SubSeq(b, 1, Len(a)) = a

OutstandingAtRelease(k, j) ==
  /\ k < j
  /\ IsWait(treqs[k]) /\ treqs[j].method = "terminal/release"
  /\ treqs[k].term = treqs[j].term
  /\ treqs[k].registered /\ ~treqs[k].terminated
  /\ treqs[j].registered /\ ~treqs[j].terminated

\* C35: a wait_for_exit that is outstanding when its handle is released is
\* still answered, exactly once, with an exit code, when the process that the
\* release killed closes: never before, never twice, and never none after the
\* close while the agent's stdin is writable.
C35_WaitSurvivesRelease ==
  /\ [](\A k, j \in DOMAIN treqs :
          OutstandingAtRelease(k, j)
            => LET n == Cardinality(ResponsesFor(treqs[k].id))
               IN /\ n <= 1
                  /\ n = 1 => ~tprocs[treqs[k].term].running
                  /\ n = 0 => tprocs[treqs[k].term].running \/ closed
                  /\ \A i \in ResponsesFor(treqs[k].id) :
                       DOMAIN sent[i].result = {"exitCode"})
  /\ [][\A t \in DOMAIN tprocs :
          (tprocs[t].running /\ ~tprocs'[t].running /\ t \notin DOMAIN terminals
             /\ Writable)
            => /\ Len(sent') = Len(sent) + Len(tprocs[t].listeners)
               /\ \A i \in DOMAIN tprocs[t].listeners :
                    sent'[Len(sent) + i] =
                      [id |-> tprocs[t].listeners[i],
                       result |-> [exitCode |-> sent'[Len(sent) + i].result.exitCode]]]_vars

\* a wait_for_exit was outstanding when its handle was released; the process
\* has closed since and the wait has its response, the handle being gone
C35_AnsweredAfterRelease ==
  \E k, j \in DOMAIN treqs :
    /\ OutstandingAtRelease(k, j)
    /\ treqs[k].term \notin DOMAIN terminals
    /\ Cardinality(ResponsesFor(treqs[k].id)) = 1
    /\ \E i \in ResponsesFor(treqs[k].id) : i > CHOOSE r \in ResponsesFor(treqs[j].id) : TRUE

\* ------------------------------------------------------------------------
\* Claims about the line listener (SpecLines)
\* ------------------------------------------------------------------------

\* the response lines written for id that carry an error member
ErrorResponsesFor(id) == {i \in ResponsesFor(id) : "error" \in DOMAIN sent[i]}

\* C12: a request of the agent with an id and a method the client does not
\* support gets an error response with that id (while the agent is there to
\* read it).  Fails: handleLine has no branch that answers such a line.
C12_UnsupportedRequestAnswered ==
  \A k \in DOMAIN dispatched :
    dispatched[k].kind = "other"
      => closed \/ ErrorResponsesFor(dispatched[k].id) # {}

\* C13: when a handler of an agent request fails while servicing it (here:
\* the request has no params), the failure becomes an error response for the
\* request id and the line listener goes on with later lines.  Fails: the
\* exception is caught nowhere, nothing is written and the process ends.
C13_HandlerFailureAnswered ==
  \A k \in DOMAIN dispatched :
    dispatched[k].kind = "noparams"
      => /\ ~crashed
         /\ closed \/ ErrorResponsesFor(dispatched[k].id) # {}

\* the lines that are empty, whitespace-only or no protocol message
NoMessageKinds == {"blank", "garbage", "null", "scalar"}

\* C14: a line that is empty, whitespace-only or not a well-formed protocol
\* message is dropped: its dispatch changes neither the pending table, the
\* prompt table nor the terminal registry, settles no caller, emits no event,
\* writes no response, and leaves the line listener running.  Fails for the
\* JSON text `null`.
C14_MalformedLineDropped ==
  [][\A line \in LineInputs :
       (line.kind \in NoMessageKinds /\ dispatched' = Append(dispatched, line))
         => /\ UNCHANGED <<pending, promptRequestIds, calls, terminals,
                           terminalCounter, events, sent>>
            /\ ~crashed']_vars

\* C15: a response line whose id matches neither a pending call nor a tracked
\* prompt id leaves the pending table and the prompt table unchanged, settles
\* no caller and emits no event.
C15_UnknownIdResponseIgnored ==
  [][\A line \in LineInputs :
       (/\ line.kind = "response"
        /\ line.id \notin DOMAIN pending
        /\ line.id \notin DOMAIN promptRequestIds
        /\ dispatched' = Append(dispatched, line))
         => UNCHANGED <<pending, promptRequestIds, calls, events>>]_vars

\* a response with an id that is no longer known (its call was settled by an
\* earlier response) or was never issued has been dispatched while another
\* call or prompt was outstanding
C15_UnknownIdResponseSeen ==
  \E k \in DOMAIN dispatched :
    /\ dispatched[k].kind = "response"
    /\ \/ dispatched[k].id = 0
       \/ \E j \in 1..(k - 1) : dispatched[j] = dispatched[k]
    /\ DOMAIN pending \cup DOMAIN promptRequestIds # {}

\* the dispatched line k is a session/update for a session that had no sender
UpdateWithoutSender(k) ==
  /\ dispatched[k].kind = "update"
  /\ Truthy(dispatched[k].session)
  /\ ~senderLog[k]

\* C16: a session/update for a session without a registered sender is
\* dropped: it is never appended to a sender, not even to one registered for
\* the session later, and it does not end the line listener.
C16_UpdateWithoutSenderDropped ==
  \A k \in DOMAIN dispatched :
    UpdateWithoutSender(k)
      => /\ \A i \in DOMAIN delivered : delivered[i] # k
         /\ k = Len(dispatched) => ~crashed

\* an update was dropped for want of a sender, a sender was registered for
\* the session afterwards, and a later update of the session reached it
C16_LaterUpdateDelivered ==
  \E k \in DOMAIN dispatched :
    /\ UpdateWithoutSender(k)
    /\ \E j \in DOMAIN dispatched :
         /\ j > k
         /\ dispatched[j].session = dispatched[k].session
         /\ delivered = <<j>>

\* C23: cancel never raises to its caller, whether the agent answers with a
\* result or an error, never answers (timeout), the stream closes while the
\* cancel is pending, or the stream is not writable at the call; and a cancel
\* that is still waiting has its timer armed, so it completes.
C23_CancelNeverRaises ==
  \A c \in DOMAIN calls :
    calls[c].method = "session/cancel"
      => /\ CallerOutcome(calls[c]) # "raised"
         /\ CallerOutcome(calls[c]) = "waiting" => c \in timers

\* two cancel calls ended in different failures (of error response, timeout,
\* close, unwritable stream), and both returned
C23_CancelFailedTwoWays ==
  \E c1, c2 \in DOMAIN calls :
    /\ calls[c1].method = "session/cancel" /\ calls[c2].method = "session/cancel"
    /\ calls[c1].settles # <<>> /\ calls[c2].settles # <<>>
    /\ calls[c1].settles[1].how # "result" /\ calls[c2].settles[1].how # "result"
    /\ calls[c1].settles[1].how # calls[c2].settles[1].how
    /\ CallerOutcome(calls[c1]) = "returned" /\ CallerOutcome(calls[c2]) = "returned"

\* ------------------------------------------------------------------------
\* Claims about control calls and prompts together (SpecOps)
\* ------------------------------------------------------------------------

\* the initialize request of start() was answered with a result, and that was
\* its first settlement
InitializeSucceeded ==
  /\ Len(calls) >= 1
  /\ calls[1].method = "initialize"
  /\ calls[1].settles # <<>>
  /\ calls[1].settles[1].how = "result"

\* C17: no session/new, session/load, session/prompt or session/cancel
\* request is issued on a client before its initialize request was answered
\* successfully; after a failed or timed-out initialize none is issued at all.
C17_NoSessionOpBeforeInitialize ==
  (Len(calls) > 1 \/ prompts # <<>>) => InitializeSucceeded

\* after a successful initialize a control request and a prompt were written
C17_SessionOpsAfterInitialize ==
  /\ InitializeSucceeded
  /\ \E c \in DOMAIN calls : calls[c].method \in ControlMethods /\ calls[c].written
  /\ \E p \in DOMAIN prompts : prompts[p].written

\* the request() and prompt() calls that were given the id
IssuedWith(id) ==
  {<<"call", c>> : c \in {c \in DOMAIN calls : calls[c].id = id}}
  \cup {<<"prompt", p>> : p \in {p \in DOMAIN prompts : prompts[p].id = id}}

\* C18: no two outstanding client-initiated requests of a client (control
\* requests and prompts) carry the same correlation id, and the id to be
\* allocated next is not the id of an outstanding request.
C18_OutstandingIdsUnique ==
  /\ \A id \in OutstandingIds : Cardinality(IssuedWith(id)) = 1
  /\ nextId \notin OutstandingIds

\* a control request and a prompt are outstanding at the same time
C18_TwoOutstanding ==
  /\ \E c \in DOMAIN calls : calls[c].id \in DOMAIN pending /\ calls[c].settles = <<>>
  /\ DOMAIN promptRequestIds # {}

\* the step is a cancel(sessionId) call
CancelCalled ==
  /\ Len(calls') = Len(calls) + 1
  /\ calls'[Len(calls')].method = "session/cancel"

\* C24: cancel is advisory.  The call leaves the agent process and its stream
\* as they are, changes no tracked prompt id and no pending entry of another
\* request and emits nothing; a turn_end is only ever emitted for a prompt
\* whose response has arrived.
C24_CancelAdvisory ==
  /\ [][CancelCalled
          => /\ UNCHANGED <<proc, stdinOpen, closed, promptRequestIds, events>>
             /\ \A id \in DOMAIN pending :
                  id \in DOMAIN pending' /\ pending'[id] = pending[id]
             /\ \A c \in DOMAIN calls : calls'[c] = calls[c]]_vars
  /\ [](\A e \in DOMAIN events :
          events[e].type = "turn_end"
            => \E a \in DOMAIN arrived :
                 arrived[a].kind = "response" /\ arrived[a].id = events[e].id)

\* a cancel was issued after a prompt and has been answered, the prompt id is
\* still tracked and no turn_end has been emitted
C24_CancelledPromptStillTracked ==
  \E p \in DOMAIN prompts, c \in DOMAIN calls :
    /\ calls[c].method = "session/cancel"
    /\ calls[c].id > prompts[p].id
    /\ calls[c].settles # <<>> /\ calls[c].settles[1].how = "result"
    /\ prompts[p].id \in DOMAIN promptRequestIds
    /\ events = <<>>

\* the step is the timer callback of some request() call
TimerFired == timers' # timers /\ timers' \subseteq timers

\* a response line for the id has been dispatched
ResponseArrived(id) ==
  \E a \in DOMAIN arrived : arrived[a].kind = "response" /\ arrived[a].id = id

\* C25: a prompt is never timed out.  A timer callback removes no tracked
\* prompt id and emits nothing, and rejects the request() call it belongs to
\* if that is still pending; a tracked prompt id stays until a response to it
\* arrives; every request() call that was written and is unsettled has its
\* timer armed.
C25_PromptNeverTimedOut ==
  /\ [][TimerFired
          => /\ UNCHANGED <<promptRequestIds, events>>
             /\ \A c \in timers \ timers' :
                  calls[c].id \in DOMAIN pending
                    => calls'[c].settles = <<[how |-> "timeout", rid |-> 0]>>]_vars
  /\ [](/\ \A p \in DOMAIN prompts :
             prompts[p].id \in DOMAIN promptRequestIds \/ ResponseArrived(prompts[p].id)
        /\ \A c \in DOMAIN calls :
             (calls[c].written /\ calls[c].settles = <<>>) => c \in timers)

\* a control request issued after a prompt has timed out, and the prompt id is
\* still tracked
C25_PromptOutlivesDeadline ==
  \E p \in DOMAIN prompts, c \in DOMAIN calls :
    /\ calls[c].id > prompts[p].id
    /\ calls[c].settles # <<>> /\ calls[c].settles[1].how = "timeout"
    /\ prompts[p].id \in DOMAIN promptRequestIds

\* C37: a client-initiated request that finds the stream not writable leaves
\* no entry behind: the pending table holds no entry for the id of a request()
\* whose line was not written, and the prompt table none for the id of such a
\* prompt().  Fails: both tables are written before send() throws.
C37_FailedWriteLeavesNoEntry ==
  /\ \A c \in DOMAIN calls :
       ~calls[c].written => calls[c].id \notin DOMAIN pending
  /\ \A p \in DOMAIN prompts :
       ~prompts[p].written => prompts[p].id \notin DOMAIN promptRequestIds

\* ------------------------------------------------------------------------
\* Claims about the error event of the agent process (SpecErr)
\* ------------------------------------------------------------------------

\* the step is the "error" handler of the agent process
ErrorEmitted ==
  /\ Len(events') = Len(events) + 1
  /\ events'[Len(events')].type = "error"

\* C26: when the agent process emits an error event, every still-pending
\* client-initiated call is rejected in that step and the pending table is
\* emptied, as on a close.  Fails: the error handler only re-emits the event.
C26_ErrorRejectsAllPending ==
  [][ErrorEmitted
       => /\ pending' = EmptyMap
          /\ \A id \in DOMAIN pending : calls'[pending[id]].settles # <<>>]_vars

\* ------------------------------------------------------------------------
\* Claims about the scope of a failure (SpecScope)
\* ------------------------------------------------------------------------

\* the calls that are settled (once more) in the step
SettledInStep ==
  {c \in DOMAIN calls : calls'[c].settles # calls[c].settles}

\* the call is rejected in the step by an error response or by its timeout
FailsAlone(c) ==
  /\ c \in SettledInStep
  /\ calls'[c].settles[Len(calls'[c].settles)].how \in {"error", "timeout"}

\* C27: an error response or a timeout for one request rejects only the
\* caller of that request: every other call, every other pending entry, every
\* tracked prompt id and every terminal entry stay as they are, and so do the
\* process and its stream; only the close step settles several callers at
\* once.
C27_FailureScopedToOneCall ==
  /\ [][\A c \in DOMAIN calls :
          FailsAlone(c)
            => /\ SettledInStep = {c}
               /\ pending' = MapDelete(pending, calls[c].id)
               /\ UNCHANGED <<promptRequestIds, terminals, tprocs, terminalCounter>>
               /\ UNCHANGED <<proc, stdinOpen, closed, initialized, nextId>>]_vars
  /\ [][Cardinality(SettledInStep) > 1 => ~closed /\ closed']_vars

\* one call was rejected by an error response while another call is still
\* pending, a prompt is tracked and a terminal is registered
C27_OneFailedOthersIntact ==
  \E c1, c2 \in DOMAIN calls :
    /\ calls[c1].settles # <<>> /\ calls[c1].settles[1].how = "error"
    /\ calls[c2].settles = <<>> /\ calls[c2].id \in DOMAIN pending
    /\ calls[c2].id < calls[c1].id
    /\ promptRequestIds # EmptyMap
    /\ terminals # EmptyMap

\* the "exit" events emitted so far
ExitEvents == {e \in DOMAIN events : events[e].type = "exit"}

\* C30: the close of the agent process signals no terminal process and
\* removes no terminal entry; in that step every pending call is rejected and
\* the pending table emptied, and the exit event is emitted, once: there is
\* one exit event when the process has closed and none before.
C30_CloseLeavesTerminals ==
  /\ [][(~closed /\ closed')
          => /\ UNCHANGED <<terminals, tprocs, terminalCounter>>
             /\ pending' = EmptyMap
             /\ SettledInStep = Range(pending)
             /\ \A c \in Range(pending) :
                  calls'[c].settles = Append(calls[c].settles, [how |-> "close", rid |-> 0])
             /\ events' = Append(events, [type |-> "exit", session |-> NoSession, id |-> 0])]_vars
  /\ [](Cardinality(ExitEvents) = IF closed THEN 1 ELSE 0)

\* the agent process has closed while a terminal process was running and two
\* calls were pending: the terminal is still registered and running, without
\* a signal, both calls are rejected and there is one exit event
C30_ClosedWithLiveTerminal ==
  /\ closed
  /\ \E t \in DOMAIN tprocs :
       t \in DOMAIN terminals /\ tprocs[t].running /\ ~tprocs[t].signalled
  /\ \E c1, c2 \in DOMAIN calls :
       /\ c1 # c2
       /\ \A c \in {c1, c2} :
            calls[c].settles # <<>> /\ calls[c].settles[1].how = "close"
  /\ Cardinality(ExitEvents) = 1

\* ------------------------------------------------------------------------
\* Claims about several terminals (SpecMulti)
\* ------------------------------------------------------------------------

\* the step changes the registration, the output buffer or the exit code of
\* handle u
EntryChanged(u) ==
  \/ (u \in DOMAIN terminals) # (u \in DOMAIN terminals')
  \/ u \in DOMAIN terminals /\ u \in DOMAIN terminals' /\ terminals'[u] # terminals[u]

\* the step dispatches a terminal/output, wait_for_exit, kill or release for
\* handle t
RequestOn(t) ==
  /\ Len(treqs') = Len(treqs) + 1
  /\ treqs'[Len(treqs')].method # "terminal/create"
  /\ treqs'[Len(treqs')].term = t

\* the step is a data or close event of the process of handle t
ProcessEventOf(t) ==
  /\ t \in DOMAIN tprocs
  /\ treqs' = treqs
  /\ \/ tprocs'[t].running # tprocs[t].running
     \/ t \in DOMAIN terminals /\ t \in DOMAIN terminals'
          /\ terminals'[t].output # terminals[t].output

\* C31: terminals are independent: a terminal/output, wait_for_exit, kill or
\* release on one handle, and the output or exit of that handle's process,
\* leave the output buffer, the exit code and the registration of every other
\* handle as they are.
C31_TerminalsIndependent ==
  [][\A t \in Handles :
       (RequestOn(t) \/ ProcessEventOf(t))
         => \A u \in DOMAIN tprocs : u # t => ~EntryChanged(u)]_vars

\* two terminals were created; the first got output, exited and was released,
\* the second is still registered and running with an empty buffer
C31_OneReleasedOtherLive ==
  \E t, u \in DOMAIN tprocs :
    /\ t # u
    /\ ~tprocs[t].running /\ t \notin DOMAIN terminals
    /\ \E k \in DOMAIN treqs : treqs[k].method = "terminal/release" /\ treqs[k].term = t
    /\ u \in DOMAIN terminals /\ tprocs[u].running
    /\ terminals[u] = [output |-> <<>>, exitCode |-> NoCode]

\* the handles returned so far by terminal/create
HandlesReturned ==
  {sent[i].result.terminalId :
     i \in {i \in DOMAIN sent : "terminalId" \in DOMAIN sent[i].result}}

\* the step dispatches a terminal/create
CreateDispatched ==
  /\ Len(treqs') = Len(treqs) + 1
  /\ treqs'[Len(treqs')].method = "terminal/create"

\* C36: terminal handles are never reused: a terminal/create registers and
\* returns a handle that no earlier terminal/create returned and that no
\* process, released or not, was created under, so no two responses to
\* terminal/create carry the same handle.
C36_HandlesNeverReused ==
  /\ [][CreateDispatched
          => \E h \in DOMAIN terminals' \ DOMAIN terminals :
               /\ h \notin HandlesReturned
               /\ h \notin DOMAIN tprocs
               /\ sent' = Append(sent, [id |-> treqs'[Len(treqs')].id,
                                        result |-> [terminalId |-> h]])
               /\ \A u \in DOMAIN tprocs : tprocs'[u] = tprocs[u]]_vars
  /\ [](\A i, j \in DOMAIN sent :
          ("terminalId" \in DOMAIN sent[i].result /\ "terminalId" \in DOMAIN sent[j].result
             /\ i # j)
            => sent[i].result.terminalId # sent[j].result.terminalId)

\* a handle was created and released, and a terminal/create dispatched after
\* the release has been answered
C36_CreatedAfterRelease ==
  \E k1, k2, k3 \in DOMAIN treqs :
    /\ k1 < k2 /\ k2 < k3
    /\ treqs[k1].method = "terminal/create" /\ treqs[k3].method = "terminal/create"
    /\ treqs[k2].method = "terminal/release" /\ treqs[k2].registered
    /\ ResponsesFor(treqs[k3].id) # {}
    /\ Cardinality(HandlesReturned) = 2

\* ------------------------------------------------------------------------
\* Claims about the session of a thread (SpecSess)
\* ------------------------------------------------------------------------

\* the positions of the calls of kind op that handleMessage call m has made
OpsOf(m, op) == {k \in DOMAIN ops : ops[k].msg = m /\ ops[k].op = op}

\* the step appends a call of kind op by handleMessage call m
Issues(m, op) ==
  /\ Len(ops') = Len(ops) + 1
  /\ ops'[Len(ops')].msg = m
  /\ ops'[Len(ops')].op = op

\* C32: a message in a thread with a stored session issues session/load for
\* the stored id before anything else and, when the load succeeds, prompts
\* that id; a session is created only by a message that found no stored
\* session or whose session/load failed, and the stored mapping of a thread
\* changes only in such a creation, to the new id, which is the id prompted.
C32_StoredSessionReused ==
  /\ [](\A m \in SessMsgs :
          /\ \A k \in OpsOf(m, "session/prompt") \cup OpsOf(m, "session/new") :
               hm[m].existing # 0
                 => \E l \in OpsOf(m, "session/load") :
                      l < k /\ ops[l].session = hm[m].existing
          /\ \A k \in OpsOf(m, "session/prompt") :
               ops[k].session =
                 IF OpsOf(m, "session/new") = {} THEN hm[m].existing ELSE hm[m].sessionId
          /\ OpsOf(m, "session/new") # {} => hm[m].existing = 0 \/ hm[m].loadFailed
          /\ (hm[m].existing # 0 /\ ~hm[m].loadFailed /\ hm[m].step \in {"prompt", "prompted"})
               => hm[m].sessionId = hm[m].existing)
  /\ [][store' # store
          => \E m \in SessMsgs :
               /\ Issues(m, "session/new")
               /\ hm[m].existing = 0 \/ hm[m].loadFailed
               /\ store' = [store EXCEPT ![hm[m].thread] = hm'[m].sessionId]
               /\ hm'[m].sessionId \notin {store[t] : t \in Threads}]_vars

\* one message loaded the stored session of its thread and prompted it; a
\* later message in the same thread failed to load it, created a session that
\* replaced the mapping, and prompted the new one
C32_LoadedThenReplaced ==
  \E m1, m2 \in SessMsgs :
    /\ m1 # m2 /\ hm[m1].thread = hm[m2].thread
    /\ hm[m1].existing = StoredId(hm[m1].thread) /\ ~hm[m1].loadFailed
    /\ \E k \in OpsOf(m1, "session/prompt") : ops[k].session = hm[m1].existing
    /\ OpsOf(m1, "session/new") = {}
    /\ hm[m2].existing = hm[m1].existing /\ hm[m2].loadFailed
    /\ \E k \in OpsOf(m2, "session/prompt") :
         /\ ops[k].session = store[hm[m2].thread]
         /\ ops[k].session # hm[m2].existing

\* ------------------------------------------------------------------------
\* Claims about agent requests that reuse an id of the client (SpecIds)
\* ------------------------------------------------------------------------

\* the step dispatches a line that has a method: a terminal request, a
\* permission request, a session/update or a request the client has no branch
\* for
MethodLineDispatched ==
  \/ Len(treqs') = Len(treqs) + 1
  \/ Len(permReqs') = Len(permReqs) + 1
  \/ /\ Len(dispatched') = Len(dispatched) + 1
     /\ dispatched'[Len(dispatched')].kind \in {"other", "update"}

\* the "turn_end" events emitted so far
TurnEndEvents == {e \in DOMAIN events : events[e].type = "turn_end"}

\* C38: a line with a method never settles a client call and never emits
\* turn_end, also when its id is the id of an outstanding request or of a
\* tracked prompt: the pending table, the prompt table and every caller stay
\* as they are, and no turn_end is added.
C38_MethodLineNeverSettles ==
  [][MethodLineDispatched
       => /\ UNCHANGED <<pending, promptRequestIds, calls>>
          /\ \A e \in DOMAIN events' \ DOMAIN events : events'[e].type # "turn_end"
          /\ \A e \in DOMAIN events : events'[e] = events[e]]_vars

\* while a prompt is tracked under an id, the agent has sent a request without
\* a branch, a terminal request and a permission request with that id; the
\* prompt is still tracked and no turn has ended
C38_IdReusedWhileOutstanding ==
  \E id \in DOMAIN promptRequestIds :
    /\ \E k \in DOMAIN dispatched : dispatched[k] = OtherRequestLine(id)
    /\ \E k \in DOMAIN treqs : treqs[k].id = id
    /\ \E k \in DOMAIN permReqs : permReqs[k].id = id
    /\ TurnEndEvents = {}

\* ------------------------------------------------------------------------
\* Claims about the append queue of a sender (SpecSend)
\* ------------------------------------------------------------------------

\* the positions of the entries of kind op in the stream log
LogOf(op) == {p \in DOMAIN streamLog : streamLog[p].op = op}

\* C34: the appends of a sender run one at a time, in the order appendDelta
\* was called: append k starts only after append k-1 has completed or failed,
\* and a failed append leaves the next one able to start; finish() stops the
\* stream only after every append requested before it has completed or failed.
C34_AppendsSerialised ==
  /\ [](Cardinality({k \in DOMAIN appends : appends[k] = "running"}) <= 1)
  /\ [](\A p \in LogOf("start") :
          LET k == streamLog[p].k
          IN /\ k = Cardinality({q \in LogOf("start") : q <= p})
             /\ k > 1 => \E q \in LogOf("end") : q < p /\ streamLog[q].k = k - 1)
  /\ [](\A k \in DOMAIN appends :
          (appends[k] = "queued" /\ (\A j \in 1..(k - 1) : Settled(j))
             /\ ~(finishPc = "waiting" /\ k > finishAfter))
            => ENABLED DoAppendStart(k))
  /\ [](\A p \in LogOf("stop") :
          \A k \in 1..finishAfter :
            \E q \in LogOf("end") : q < p /\ streamLog[q].k = k)
  /\ [](finishPc = "stopped" => \A k \in 1..finishAfter : Settled(k))

\* finish() was called after two appends had been requested, the first of
\* which failed; the second ran after it, and the stream was stopped after
\* both
C34_StoppedAfterFailedAppend ==
  /\ finishAfter >= 2
  /\ appends[1] = "failed" /\ appends[2] = "done"
  /\ finishPc = "stopped"
  /\ LogOf("stop") # {}
  /\ \E p \in LogOf("end") : streamLog[p].k = 1 /\ Len(streamLog) > p

\* ------------------------------------------------------------------------
\* Claims about lines that arrive during a wait_for_exit (SpecWait)
\* ------------------------------------------------------------------------

\* C28: while a terminal/wait_for_exit is outstanding for a running process,
\* the client goes on dispatching: a terminal/output, terminal/kill or
\* terminal/create that arrives is answered in the step that dispatches it, a
\* response settles its caller and an update is emitted, all without the
\* awaited process having to exit.
C28_DispatchDuringWait ==
  [][WaitOutstanding
       => /\ (Len(treqs') = Len(treqs) + 1
                /\ treqs'[Len(treqs')].method # "terminal/wait_for_exit")
               => /\ Len(sent') = Len(sent) + 1
                  /\ sent'[Len(sent')].id = treqs'[Len(treqs')].id
          /\ (Len(arrived') = Len(arrived) + 1
                /\ arrived'[Len(arrived')].kind = "update")
               => /\ Len(events') = Len(events) + 1
                  /\ events'[Len(events')].type = "update"
          /\ (Len(treqs') = Len(treqs) + 1 \/ Len(arrived') = Len(arrived) + 1
                \/ calls' # calls)
               => \A t \in DOMAIN tprocs : tprocs'[t].running = tprocs[t].running]_vars

\* a wait_for_exit is still outstanding, a terminal/create and a
\* terminal/output dispatched after it have been answered, an update has been emitted and the initialize call has
\* been settled
C28_AnsweredDuringWait ==
  /\ WaitOutstanding
  /\ \E k1, k2, k3 \in DOMAIN treqs :
       /\ k1 < k2 /\ k2 < k3
       /\ treqs[k1].method = "terminal/wait_for_exit" /\ ResponsesFor(treqs[k1].id) = {}
       /\ treqs[k2].method = "terminal/create" /\ ResponsesFor(treqs[k2].id) # {}
       /\ treqs[k3].method = "terminal/output" /\ ResponsesFor(treqs[k3].id) # {}
  /\ \E e \in DOMAIN events : events[e].type = "update"
  /\ calls[1].settles # <<>>

\* ------------------------------------------------------------------------
\* Claims about the prompt lock (SpecLock)
\* ------------------------------------------------------------------------

\* C7: at most one prompt is in flight: between a handleMessage call passing
\* acquirePromptLock and the next release of the lock, no other call passes
\* it.  Fails when two calls wait on the same lock promise.
C7_OnePromptInFlight == Cardinality(inFlight) <= 1

\* C39: every handleMessage call that waits in acquirePromptLock eventually
\* passes it, given that queued callbacks run and that every call holding the
\* lock ends (its prompt is sent and its turn ends, or it fails): no release
\* leaves a waiting call blocked forever.
C39_WaiterEventuallyPasses ==
  \A m \in Msgs : (msgs[m].pc = "waiting") ~> (msgs[m].pc # "waiting")

\* two calls waited on the same lock promise and both have passed
\* acquirePromptLock
C39_TwoWaitersPassed ==
  \E m1, m2 \in Msgs :
    /\ m1 # m2
    /\ msgs[m1].waitsOn # 0 /\ msgs[m1].waitsOn = msgs[m2].waitsOn
    /\ msgs[m1].pc \in {"prompted", "ended"}
    /\ msgs[m2].pc \in {"prompted", "ended"}

\* ------------------------------------------------------------------------
\* Claims about permission requests (SpecPerm)
\* ------------------------------------------------------------------------

OptionIds == {"allow_always", "allow_once", "reject_once"}

\* the permission request is still with the user: its prompt is being posted
\* or is posted and has not been clicked
AwaitingUser(id) ==
  \E a \in DOMAIN pendingPermissions :
    /\ pendingPermissions[a].acpRequestId = id
    /\ posts[a] \in {"posting", "posted"}

AllowAlways(id) ==
  [id |-> id, result |-> [outcome |-> [outcome |-> "selected", optionId |-> "allow_always"]]]

\* the request was never put to a user: the listener answered it (auto
\* approval or no sender, no prompt was posted for it) or its post failed
NotPutToUser(id) == id \notin DOMAIN posts \/ posts[id] = "failed"

\* C29: a permission request that cannot be put to a user (auto approval, no
\* sender for the session, failed post of the prompt) is answered with
\* allow_always: in the step that finds it out while the agent's stdin is
\* writable, and with no other option ever.
C29_FailSafeAllowAlways ==
  /\ [][/\ (Len(permReqs') = Len(permReqs) + 1
              /\ (toolApproval = "auto"
                    \/ permReqs'[Len(permReqs')].session \notin activeSenders))
             => sent' = Append(sent, AllowAlways(permReqs'[Len(permReqs')].id))
        /\ \A a \in DOMAIN posts :
             (posts[a] = "posting" /\ posts'[a] = "failed" /\ Writable)
               => /\ sent' = Append(sent, AllowAlways(pendingPermissions[a].acpRequestId))
                  /\ a \notin DOMAIN pendingPermissions']_vars
  /\ [](\A k \in DOMAIN permReqs :
          NotPutToUser(permReqs[k].id)
            => /\ \A i \in ResponsesFor(permReqs[k].id) : sent[i] = AllowAlways(permReqs[k].id)
               /\ ResponsesFor(permReqs[k].id) = {} => ~Writable)

\* with interactive approval, one request arrived for a session without a
\* sender and the post of another one failed; both have their allow_always
C29_AnsweredWithoutUser ==
  /\ toolApproval = "interactive"
  /\ \E k1, k2 \in DOMAIN permReqs :
       /\ permReqs[k1].id \notin DOMAIN posts
       /\ permReqs[k2].id \in DOMAIN posts /\ posts[permReqs[k2].id] = "failed"
       /\ \A k \in {k1, k2} :
            \E i \in ResponsesFor(permReqs[k].id) : sent[i] = AllowAlways(permReqs[k].id)

====
